---- MODULE Spec2Model ----
(***************************************************************************)
(* A model of the tradinggui metrics pipeline:                             *)
(*   src/src/analysis/metrics.py  StockMetricsCalculator                   *)
(*   src/src/data/database.py     Database, StockMetrics                   *)
(*   src/src/main.py              process_tickers_batch                    *)
(*   src/src/main.py, src/src/test_tickers.py, src/test_yfinance.py        *)
(*                                the per-ticker drivers                   *)
(*   src/src/web_app/app.py       add_stock, delete_stock                  *)
(*   src/src/data/ticker_loader.py  load_unique_tickers                    *)
(*                                                                         *)
(* Floats, strings and None are one universe of records [k, n, e, s]:      *)
(*   k = "none"    Python None                                             *)
(*   k = "nan"     float NaN                                               *)
(*   k = "inf"     float infinity, sign n                                  *)
(*   k = "num"     the float n * 10^e                                      *)
(*   k = "numstr"  the string "<n * 10^e><s>", s a suffix ("" for plain)   *)
(*   k = "commastr"  the string of k = "numstr" written with thousands     *)
(*                 separators, as in "1,234.5M"                            *)
(*   k = "str"     the string s, which float() cannot parse                *)
(* Arithmetic on floats is decimal, to nine digits (see Float arithmetic). *)
(***************************************************************************)
EXTENDS Integers, Sequences, FiniteSets, TLC

VARIABLES fx, vx, table, now, st, run, mockrun, drv, pf

vars == <<fx, vx, table, now, st, run, mockrun, drv, pf>>

(***************************************************************************)
(* Values                                                                  *)
(***************************************************************************)
None == [k |-> "none", n |-> 0, e |-> 0, s |-> ""]

NaN == [k |-> "nan", n |-> 0, e |-> 0, s |-> ""]

Inf(sign) == [k |-> "inf", n |-> sign, e |-> 0, s |-> ""]

Num(n, e) == [k |-> "num", n |-> n, e |-> e, s |-> ""]

NumStr(n, e, suffix) == [k |-> "numstr", n |-> n, e |-> e, s |-> suffix]

CommaStr(n, e, suffix) == [k |-> "commastr", n |-> n, e |-> e, s |-> suffix]

Str(s) == [k |-> "str", n |-> 0, e |-> 0, s |-> s]

(***************************************************************************)
(* The retry layer and the three fetchers (metrics.py:21-164)              *)
(***************************************************************************)

\* stop_after_attempt(5)
StopAfterAttempt == 5

\* wait_exponential(multiplier=3, min=8, max=60)
WaitMultiplier == 3

WaitMin == 8

WaitMax == 60

Fetchers == {"_get_historical_data", "_get_stock_stats", "_get_valuation_stats"}

\* Exceptions a provider call raises:
\*   http_429     requests HTTPError whose response has status 429
\*   http_500     requests HTTPError whose response has another status
\*   http_noresp  requests HTTPError built without a response (response is None)
\*   assert_429   AssertionError whose text holds "429" or "Too Many Requests"
\*   assert_other AssertionError with another text
\*   json_tmr     requests JSONDecodeError whose text holds "Too Many Requests"
\*   conn         requests ConnectionError / Timeout
\*   conn_429     requests ConnectionError whose text holds "429" (urllib3:
\*                "too many 429 error responses")
\*   value        ValueError
\*   key          KeyError (any exception outside the retry filter)
ErrorKinds ==
    {"http_429", "http_500", "http_noresp", "assert_429", "assert_other",
     "json_tmr", "conn", "conn_429", "value", "key"}

HTTPErrors == {"http_429", "http_500", "http_noresp"}

AssertionErrors == {"assert_429", "assert_other"}

JSONDecodeErrors == {"json_tmr"}

\* requests.exceptions.RequestException and its subclasses
RequestExceptions == HTTPErrors \cup JSONDecodeErrors \cup {"conn", "conn_429"}

\* retry_if_exception_type((RequestException, AssertionError, ValueError))
RetryIfExceptionType(err) ==
    err \in RequestExceptions \cup AssertionErrors \cup {"value"}

\* _is_rate_limited_error: "yes", "no", or "AttributeError" when the HTTPError
\* has no response object (exception.response.status_code on None).
IsRateLimitedError(err) ==
    CASE err = "http_noresp" -> "AttributeError"
      [] err \in HTTPErrors -> IF err = "http_429" THEN "yes" ELSE "no"
      [] err \in AssertionErrors -> IF err = "assert_429" THEN "yes" ELSE "no"
      [] err \in JSONDecodeErrors -> IF err = "json_tmr" THEN "yes" ELSE "no"
      [] OTHER -> "no"

RECURSIVE Pow2(_)
Pow2(n) == IF n <= 0 THEN 1 ELSE 2 * Pow2(n - 1)

Max(a, b) == IF a >= b THEN a ELSE b

Min(a, b) == IF a <= b THEN a ELSE b

\* A wait without the floor of min: multiplier * 2^(n - 1) up to max.
WaitExponential_NoFloor(attempt_number) ==
    Min(WaitMultiplier * Pow2(attempt_number - 1), WaitMax)

\* tenacity wait_exponential: max(max(0, min), min(multiplier * 2^(n-1), max))
WaitExponential(attempt_number) ==
    Max(Max(0, WaitMin), Min(WaitMultiplier * Pow2(attempt_number - 1), WaitMax))

Ev(name) == [ev |-> name, secs |-> 0]

Backoff(secs) == [ev |-> "backoff", secs |-> secs]

\* What one provider call does: returns rows, returns nothing, or raises.
ProviderData(d) == [k |-> "data", err |-> "", data |-> <<d>>]

ProviderEmpty == [k |-> "empty", err |-> "", data |-> <<>>]

ProviderRaise(err) == [k |-> "raise", err |-> err, data |-> <<>>]

\* _generate_mock_historical_data / _generate_mock_valuation_data; the stats
\* fetcher returns None in mock mode.
MockData(fetcher, mock_payload) ==
    IF fetcher = "_get_stock_stats" THEN <<>> ELSE <<mock_payload>>

\* A fetcher invocation before its first attempt.
FetchStart(fetcher, mock) ==
    [fetcher |-> fetcher, mock |-> mock, status |-> "running",
     attempt_number |-> 0, calls |-> 0, events |-> <<>>, outcomes |-> <<>>,
     value |-> <<>>, error |-> ""]

\* A retry decision that gives up one attempt early.
AfterException_StopOneEarly(f, err, events) ==
    IF ~RetryIfExceptionType(err)
    THEN [f EXCEPT !.status = "raised", !.error = err, !.events = events]
    ELSE IF f.attempt_number >= StopAfterAttempt - 1
    THEN [f EXCEPT !.status = "raised", !.error = "RetryError", !.events = events]
    ELSE [f EXCEPT !.events = Append(events, Backoff(WaitExponential(f.attempt_number)))]

\* The retry decision of tenacity after a failed attempt n with exception err.
AfterException(f, err, events) ==
    IF ~RetryIfExceptionType(err)
    THEN [f EXCEPT !.status = "raised", !.error = err, !.events = events]
    ELSE IF f.attempt_number >= StopAfterAttempt
    THEN [f EXCEPT !.status = "raised", !.error = "RetryError", !.events = events]
    ELSE [f EXCEPT !.events = Append(events, Backoff(WaitExponential(f.attempt_number)))]

\* An attempt that throttles before the first call only.
AttemptStep_ThrottleFirstOnly(f, o, mock_payload) ==
    LET g == [f EXCEPT !.attempt_number = f.attempt_number + 1] IN
    IF f.mock
    THEN [g EXCEPT !.status = "returned", !.value = MockData(f.fetcher, mock_payload)]
    ELSE
      LET called == [g EXCEPT !.calls = f.calls + 1,
                              !.outcomes = Append(f.outcomes, o)]
          evs == f.events \o (IF f.attempt_number = 0
                              THEN <<Ev("throttle"), Ev("call")>>
                              ELSE <<Ev("call")>>)
      IN
      CASE o.k = "data" ->
             [called EXCEPT !.status = "returned", !.value = o.data, !.events = evs]
        [] o.k = "empty" ->
             [called EXCEPT !.status = "returned", !.value = <<>>, !.events = evs]
        [] OTHER ->
             LET rl == IsRateLimitedError(o.err) IN
             CASE rl = "AttributeError" ->
                    AfterException(called, "AttributeError", evs)
               [] rl = "yes" ->
                    AfterException(called, o.err, Append(evs, Ev("cooldown")))
               [] OTHER ->
                    AfterException(called, o.err, evs)

\* An attempt that treats an answer without rows as a ValueError.
AttemptStep_EmptyRaises(f, o, mock_payload) ==
    LET g == [f EXCEPT !.attempt_number = f.attempt_number + 1] IN
    IF f.mock
    THEN [g EXCEPT !.status = "returned", !.value = MockData(f.fetcher, mock_payload)]
    ELSE
      LET called == [g EXCEPT !.calls = f.calls + 1,
                              !.outcomes = Append(f.outcomes, o)]
          evs == f.events \o <<Ev("throttle"), Ev("call")>>
      IN
      CASE o.k = "data" ->
             [called EXCEPT !.status = "returned", !.value = o.data, !.events = evs]
        [] o.k = "empty" ->
             AfterException(called, "value", evs)
        [] OTHER ->
             LET rl == IsRateLimitedError(o.err) IN
             CASE rl = "AttributeError" ->
                    AfterException(called, "AttributeError", evs)
               [] rl = "yes" ->
                    AfterException(called, o.err, Append(evs, Ev("cooldown")))
               [] OTHER ->
                    AfterException(called, o.err, evs)

\* One attempt of a fetcher: the decorated function body, then the retry
\* layer's decision.  o is what the provider does when called.
AttemptStep(f, o, mock_payload) ==
    LET g == [f EXCEPT !.attempt_number = f.attempt_number + 1] IN
    IF f.mock
    THEN [g EXCEPT !.status = "returned", !.value = MockData(f.fetcher, mock_payload)]
    ELSE
      LET called == [g EXCEPT !.calls = f.calls + 1,
                              !.outcomes = Append(f.outcomes, o)]
          evs == f.events \o <<Ev("throttle"), Ev("call")>>
      IN
      CASE o.k = "data" ->
             [called EXCEPT !.status = "returned", !.value = o.data, !.events = evs]
        [] o.k = "empty" ->
             [called EXCEPT !.status = "returned", !.value = <<>>, !.events = evs]
        [] OTHER ->
             LET rl == IsRateLimitedError(o.err) IN
             CASE rl = "AttributeError" ->
                    AfterException(called, "AttributeError", evs)
               [] rl = "yes" ->
                    AfterException(called, o.err, Append(evs, Ev("cooldown")))
               [] OTHER ->
                    AfterException(called, o.err, evs)

\* A whole fetcher invocation against a provider that behaves as script says,
\* attempt by attempt.
RECURSIVE RunFetch(_, _, _)
RunFetch(f, script, mock_payload) ==
    IF f.status # "running" THEN f
    ELSE RunFetch(AttemptStep(f, Head(script), mock_payload), Tail(script), mock_payload)

(***************************************************************************)
(* Historical series and momentum metrics (metrics.py:166-186)             *)
(*                                                                         *)
(* A series of closes is described by runs: close i is lo for i <= split,  *)
(* hi after it, and NaN at index nan (0: no NaN); these closes are whole   *)
(* numbers.  A series given close by close carries its closes as a path,   *)
(* in units of 10^-4, and the frame the mock generator builds carries them *)
(* as floats.                                                              *)
(***************************************************************************)

\* hist_data.shape[0] < 100, rolling(window=100), ewm(span=100)
Window == 100

Series(len, lo, hi, split, nan) ==
    [len |-> len, lo |-> lo, hi |-> hi, split |-> split, nan |-> nan]

\* A series given close by close, in units of 10^-4.
Path(closes) == [len |-> Len(closes), path |-> closes, nan |-> 0]

IsPath(s) == "path" \in DOMAIN s

\* A frame whose close column holds the floats given.
Frame(closes) == [len |-> Len(closes), close |-> closes, nan |-> 0]

IsFrame(s) == "close" \in DOMAIN s

Close(s, i) ==
    IF i = s.nan THEN NaN
    ELSE IF IsPath(s) THEN Num(s.path[i], -4)
    ELSE IF IsFrame(s) THEN s.close[i]
    ELSE Num(IF i <= s.split THEN s.lo ELSE s.hi, 0)

\* Whether one of the closes i..len is NaN.
HasNaNFrom(s, i) == s.nan >= i /\ s.nan <= s.len

\* x * num / den to the nearest whole number, for x >= 0.
MulDivRound(x, num, den) ==
    (x \div den) * num + ((x % den) * num + den \div 2) \div den

RECURSIVE Pow(_, _)
Pow(b, n) == IF n <= 0 THEN 1 ELSE b * Pow(b, n - 1)

(***************************************************************************)
(* Float arithmetic.  A float64 is carried as a decimal float Num(n, e) =   *)
(* n * 10^e whose mantissa has nine digits (MantissaMin <= |n| < 10 *       *)
(* MantissaMin) or is 0 with e = 0; every operation rounds its result to   *)
(* nine digits, as the float64 operation rounds it to 53 bits.             *)
(***************************************************************************)

Abs(x) == IF x < 0 THEN 0 - x ELSE x

\* q or 0 - q
WithSign(positive, q) == IF positive THEN q ELSE 0 - q

\* The smallest mantissa of nine digits.
MantissaMin == 100000000

\* A quotient q with remainder r of a division by d, to the nearest whole
\* number.
RoundUp(q, r, d) == IF r >= d - r THEN q + 1 ELSE q

\* x / d for d > 0, to the nearest whole number.
DivRound(x, d) == WithSign(x >= 0, RoundUp(Abs(x) \div d, Abs(x) % d, d))

\* n * 10^e for n # 0 with the zeros that make the mantissa nine digits long.
RECURSIVE ScaleUp(_, _)
ScaleUp(n, e) ==
    IF Abs(n) >= MantissaMin THEN Num(n, e) ELSE ScaleUp(n * 10, e - 1)

\* n * 10^e as a float.
Normalise(n, e) ==
    IF n = 0 THEN Num(0, 0)
    ELSE IF Abs(n) >= 10 * MantissaMin THEN Num(DivRound(n, 10), e + 1)
    ELSE ScaleUp(n, e)

\* A number as a float.
AsFloat(v) == Normalise(v.n, v.e)

\* hi + lo for floats hi and lo, neither 0, with hi.e >= lo.e
AddAligned(hi, lo) ==
    IF hi.e - lo.e > 9 THEN hi
    ELSE Normalise(hi.n + DivRound(lo.n, Pow(10, hi.e - lo.e)), hi.e)

\* x + y for floats x and y
AddFloats(x, y) ==
    IF x.n = 0 THEN y
    ELSE IF y.n = 0 THEN x
    ELSE IF x.e >= y.e THEN AddAligned(x, y) ELSE AddAligned(y, x)

\* a + b
FloatAdd(a, b) == AddFloats(AsFloat(a), AsFloat(b))

\* a - b
FloatSub(a, b) == FloatAdd(a, Num(0 - b.n, b.e))

\* a <= b
FloatLeq(a, b) == FloatSub(a, b).n <= 0

\* max(a, b)
FloatMax(a, b) == IF FloatLeq(a, b) THEN AsFloat(b) ELSE a

\* The product of two mantissas of nine digits, cut to nine digits: high is
\* the product without its last nine digits, low the next three.
MulRound(high, low) ==
    IF high >= MantissaMin THEN Num(high + (IF low >= 500 THEN 1 ELSE 0), 9)
    ELSE Num(10 * high + (low + 50) \div 100, 8)

\* high is the product without its last twelve digits, c the next six.
MulCarry(high, c) == MulRound(high + c \div 1000, c % 1000)

\* The mantissas in limbs of three digits: x2 x1 x0 times y2 y1 y0.
MulLimbs(x2, x1, x0, y2, y1, y0) ==
    MulCarry(x2 * y2 * 1000 + x2 * y1 + x1 * y2,
             x2 * y0 + x1 * y1 + x0 * y2
               + (x1 * y0 + x0 * y1 + (x0 * y0) \div 1000) \div 1000)

MulMantissas(xn, yn) ==
    MulLimbs(xn \div 1000000, (xn \div 1000) % 1000, xn % 1000,
             yn \div 1000000, (yn \div 1000) % 1000, yn % 1000)

\* The product m of the mantissas of x and y with the sign and the exponent
\* of x * y.
MulSigned(x, y, m) ==
    Normalise(WithSign((x.n < 0) = (y.n < 0), m.n), x.e + y.e + m.e)

\* x * y for floats x and y, neither 0
MulFloats(x, y) == MulSigned(x, y, MulMantissas(Abs(x.n), Abs(y.n)))

\* a * b
FloatMul(a, b) ==
    IF a.n = 0 \/ b.n = 0 THEN Num(0, 0) ELSE MulFloats(AsFloat(a), AsFloat(b))

\* <<carry, x + y - carry * den>> for x, y < den, without forming x + y.
AddMod(x, y, den) ==
    IF x >= den - y THEN <<1, x - (den - y)>> ELSE <<0, x + y>>

\* <<c + carry, remainder>>
Carry(c, sum) == <<c + sum[1], sum[2]>>

\* t = <<q, r>> stands for q * den + r: twice t, and t plus r.
Double(t, den) == Carry(2 * t[1], AddMod(t[2], t[2], den))

PlusRemainder(t, r, den) == Carry(t[1], AddMod(t[2], r, den))

\* <<(10 * r) \div den, (10 * r) % den>> for r < den, without forming 10 * r
\* when it does not fit 31 bits.
TimesTen(r, den) ==
    IF r <= 214748364 THEN <<(10 * r) \div den, (10 * r) % den>>
    ELSE Double(PlusRemainder(Double(Double(<<0, r>>, den), den), r, den), den)

\* Decimal digits of a quotient q with remainder r until it has nine of them:
\* <<quotient, remainder, digits gained>>.
RECURSIVE MoreDigits(_, _, _, _)
RECURSIVE NextDigit(_, _, _, _)
MoreDigits(q, r, den, k) ==
    IF q >= MantissaMin THEN <<q, r, k>>
    ELSE NextDigit(q, TimesTen(r, den), den, k)

NextDigit(q, t, den, k) == MoreDigits(10 * q + t[1], t[2], den, k + 1)

\* The digits m of |x| / den with the sign and the exponent of x / b.
DivSigned(x, b, m, den) ==
    Normalise(WithSign((x.n < 0) = (b.n < 0), RoundUp(m[1], m[2], den)),
              x.e - b.e - m[3])

\* x / b for a float x # 0 and b # 0
DivFloats(x, b) ==
    DivSigned(x, b,
              MoreDigits(Abs(x.n) \div Abs(b.n), Abs(x.n) % Abs(b.n), Abs(b.n), 0),
              Abs(b.n))

\* a / b for b # 0
FloatDiv(a, b) == IF a.n = 0 THEN Num(0, 0) ELSE DivFloats(AsFloat(a), b)

\* a + a
Twice(a) == FloatAdd(a, a)

\* a * 100
TimesHundred(a) == Normalise(a.n, a.e + 2)

\* The sum of the closes a..b that are numbers (NaN counts 0).
RECURSIVE SumRange(_, _, _)
SumRange(s, a, b) ==
    IF a > b THEN Num(0, 0)
    ELSE IF a = b THEN (IF Close(s, a).k = "num" THEN AsFloat(Close(s, a)) ELSE Num(0, 0))
    ELSE FloatAdd(SumRange(s, a, (a + b) \div 2), SumRange(s, (a + b) \div 2 + 1, b))

\* total / count
ClosesMean(total, count) == FloatDiv(total, Num(count, 0))

\* A mean over every close of the series instead of the last 100.
RollingMean_AllCloses(s) ==
    IF s.len < Window \/ HasNaNFrom(s, 1) THEN NaN
    ELSE ClosesMean(SumRange(s, 1, s.len), s.len)

\* close_prices.rolling(window=100).mean().iloc[-1]: NaN unless all of the
\* last 100 closes are numbers.
RollingMean(s) ==
    IF s.len < Window \/ HasNaNFrom(s, s.len - Window + 1) THEN NaN
    ELSE ClosesMean(SumRange(s, s.len - Window + 1, s.len), Window)

\* The sum of the exponential weights is carried in units of 1 / WeightScale.
WeightScale == 10000000

\* Closes evaluated at a time.
EwmBlock == 25

\* close_prices.ewm(span=100).mean().iloc[-1] with pandas' defaults
\* (adjust=True, ignore_na=False): the mean of the closes that are numbers,
\* close i weighted by (1 - alpha)^(len - i), alpha = 2 / (span + 1).
\* One close forward: acc = <<y, w>>, y the weighted mean so far and w the
\* sum of its weights (0: no number seen yet).  A number c gives
\* w' = (1 - alpha) * w + 1 and y' = y + (c - y) / w'; a NaN lets the weights
\* shrink and leaves the mean.
EwmStep(s, i, acc) ==
    IF i > s.len THEN acc
    ELSE IF Close(s, i).k # "num"
    THEN <<acc[1], MulDivRound(acc[2], Window - 1, Window + 1)>>
    ELSE IF acc[2] = 0 THEN <<AsFloat(Close(s, i)), WeightScale>>
    ELSE LET w == MulDivRound(acc[2], Window - 1, Window + 1) + WeightScale
         IN <<FloatAdd(acc[1], FloatDiv(FloatSub(Close(s, i), acc[1]),
                                        Num(w, 0 - 7))), w>>

\* n closes forward from close i.
RECURSIVE EwmRun(_, _, _, _)
EwmRun(s, i, n, acc) ==
    IF n = 0 \/ acc[2] < 0 THEN acc ELSE EwmRun(s, i + 1, n - 1, EwmStep(s, i, acc))

\* All closes from close i on, in blocks of EwmBlock closes.
RECURSIVE EwmAcc(_, _, _)
EwmAcc(s, i, acc) ==
    IF i > s.len \/ acc[2] < 0 THEN acc
    ELSE EwmAcc(s, i + EwmBlock, EwmRun(s, i, EwmBlock, acc))

\* The mean of acc: NaN when no close was a number.
EwmLast(acc) == IF acc[2] = 0 THEN NaN ELSE acc[1]

\* The last value of the average.
EwmMean(s) == EwmLast(EwmAcc(s, 1, <<Num(0, 0), 0>>))

\* hist_data['close'].dropna() of the price plot (app.py:29): the series
\* without its NaN close.
DropNaClose(s) ==
    IF s.nan < 1 \/ s.nan > s.len THEN s
    ELSE Series(s.len - 1, s.lo, s.hi, IF s.nan <= s.split THEN s.split - 1 ELSE s.split, 0)

\* close_prices.ewm(span=100, adjust=False).mean() of the price plot
\* (app.py:56), one close forward on a series without NaN: acc = <<e, seen>>,
\* e_0 = c_0 and e_t = e_(t-1) + alpha * (c_t - e_(t-1)), alpha = 2 / (span + 1).
EwmUnadjustedStep(s, i, acc) ==
    IF i > s.len THEN acc
    ELSE IF acc[2] = 0 THEN <<AsFloat(Close(s, i)), 1>>
    ELSE <<FloatAdd(acc[1], FloatDiv(Twice(FloatSub(Close(s, i), acc[1])),
                                     Num(Window + 1, 0))), 1>>

\* n closes forward from close i.
RECURSIVE EwmUnadjustedRun(_, _, _, _)
EwmUnadjustedRun(s, i, n, acc) ==
    IF n = 0 \/ acc[2] < 0 THEN acc
    ELSE EwmUnadjustedRun(s, i + 1, n - 1, EwmUnadjustedStep(s, i, acc))

\* All closes from close i on, in blocks of EwmBlock closes.
RECURSIVE EwmUnadjustedAcc(_, _, _)
EwmUnadjustedAcc(s, i, acc) ==
    IF i > s.len \/ acc[2] < 0 THEN acc
    ELSE EwmUnadjustedAcc(s, i + EwmBlock, EwmUnadjustedRun(s, i, EwmBlock, acc))

\* The last point of the 100-day EMA trace of create_stock_plot (app.py:29,
\* 55-56): the NaN closes are dropped first, and with fewer than 100 closes
\* left no trace is drawn (None).
EwmMeanUnadjusted(s) ==
    LET close_prices == DropNaClose(s) IN
    IF close_prices.len < Window THEN None
    ELSE EwmUnadjustedAcc(close_prices, 1, <<Num(0, 0), 0>>)[1]

\* (last_price - avg) / avg * 100 in float64 arithmetic: NaN propagates,
\* x / 0 is an infinity and 0 / 0 is NaN (numpy warns, it does not raise).
PctAbove(last_price, avg) ==
    IF last_price.k = "nan" \/ avg.k = "nan" THEN NaN
    ELSE IF avg.n = 0
    THEN (IF last_price.n = 0 THEN NaN ELSE Inf(IF last_price.n > 0 THEN 1 ELSE -1))
    ELSE TimesHundred(FloatDiv(FloatSub(last_price, avg), avg))

\* calculate_momentum_metrics that also refuses a series of exactly 100 bars.
calculate_momentum_metrics_OffByOne(hist_data) ==
    IF hist_data.len <= Window
    THEN [raised |-> "ValueError", metrics |-> <<>>]
    ELSE LET ma_100 == RollingMean(hist_data)
             ema_100 == EwmMean(hist_data)
             last_price == Close(hist_data, hist_data.len)
         IN [raised |-> "",
             metrics |-> <<[last_price |-> last_price,
                            ma_100 |-> ma_100,
                            ema_100 |-> ema_100,
                            pct_above_ma_100 |-> PctAbove(last_price, ma_100),
                            pct_above_ema_100 |-> PctAbove(last_price, ema_100)]>>]

\* calculate_momentum_metrics: raises ValueError under 100 bars.
calculate_momentum_metrics(hist_data) ==
    IF hist_data.len < Window
    THEN [raised |-> "ValueError", metrics |-> <<>>]
    ELSE LET ma_100 == RollingMean(hist_data)
             ema_100 == EwmMean(hist_data)
             last_price == Close(hist_data, hist_data.len)
         IN [raised |-> "",
             metrics |-> <<[last_price |-> last_price,
                            ma_100 |-> ma_100,
                            ema_100 |-> ema_100,
                            pct_above_ma_100 |-> PctAbove(last_price, ma_100),
                            pct_above_ema_100 |-> PctAbove(last_price, ema_100)]>>]

MomentumFields ==
    {"last_price", "ma_100", "ema_100", "pct_above_ma_100", "pct_above_ema_100"}

RequiredFields == {"ticker"} \cup MomentumFields

\* isinstance(value, (int, float)) and (np.isnan(value) or np.isinf(value))
IsNanOrInfNumber(value) == value.k \in {"nan", "inf"}

\* A validator that also wants every valuation field to be a number.
_validate_momentum_metrics_AllFields(metrics) ==
    /\ RequiredFields \subseteq DOMAIN metrics
    /\ \A field \in DOMAIN metrics \ {"ticker"} : metrics[field].k = "num"

\* A validator that only looks for the required keys.
_validate_momentum_metrics_KeysOnly(metrics) ==
    RequiredFields \subseteq DOMAIN metrics

\* _validate_momentum_metrics
_validate_momentum_metrics(metrics) ==
    /\ RequiredFields \subseteq DOMAIN metrics
    /\ \A field \in MomentumFields : ~IsNanOrInfNumber(metrics[field])

(***************************************************************************)
(* Valuation table and valuation metrics (metrics.py:188-297)              *)
(*                                                                         *)
(* A valuation table is a sequence of rows [attr, cell]: the first two     *)
(* columns of the provider's frame.                                        *)
(***************************************************************************)

ValuationFields ==
    {"pe_ratio", "pb_ratio", "ps_ratio", "peg_ratio", "forward_pe",
     "market_cap", "enterprise_value", "ebitda", "ebitda_ev"}

\* The dict of nine None values (metrics.py:194-204, 266-276, 316-326).
NullValuation == [f \in ValuationFields |-> None]

\* The attribute texts of the provider's valuation table and of the mock.
Attributes ==
    {"Market Cap (intraday)", "Enterprise Value", "Trailing P/E", "Forward P/E",
     "Forward P/E (1y)", "PEG Ratio (5 yr expected)", "Price/Sales (ttm)", "Price/Book (mrq)",
     "Enterprise Value/Revenue", "Enterprise Value/EBITDA", "EBITDA"}

\* val.Attribute.str.contains(pattern): the attributes holding the pattern.
Containing(pattern) ==
    CASE pattern = "Trailing P/E" -> {"Trailing P/E"}
      [] pattern = "Price/Book" -> {"Price/Book (mrq)"}
      [] pattern = "Price/Sales" -> {"Price/Sales (ttm)"}
      [] pattern = "PEG" -> {"PEG Ratio (5 yr expected)"}
      [] pattern = "Forward P/E" -> {"Forward P/E", "Forward P/E (1y)"}
      [] pattern = "Market Cap" -> {"Market Cap (intraday)"}
      [] pattern = "Enterprise Value" ->
           {"Enterprise Value", "Enterprise Value/Revenue", "Enterprise Value/EBITDA"}
      [] pattern = "EBITDA" -> {"EBITDA", "Enterprise Value/EBITDA"}
      [] OTHER -> {}

\* val[val.Attribute.str.contains(pattern)]
RowsContaining(val, pattern) ==
    SelectSeq(val, LAMBDA row : row.attr \in Containing(pattern))

\* float(cell): a value, or the exception it raises.
Float(cell) ==
    CASE cell.k \in {"num", "nan", "inf"} -> [raised |-> "", value |-> cell]
      [] cell.k = "numstr" /\ cell.s = "" -> [raised |-> "", value |-> Num(cell.n, cell.e)]
      [] cell.k = "none" -> [raised |-> "TypeError", value |-> None]
      [] OTHER -> [raised |-> "ValueError", value |-> None]

SuffixExponent(suffix) ==
    CASE suffix = "T" -> 12
      [] suffix = "B" -> 9
      [] suffix = "M" -> 6
      [] suffix = "K" -> 3
      [] OTHER -> 0

\* bool(value) of Python: None, "" and 0.0 are falsy, NaN is truthy.
Truthy(value) ==
    /\ value.k # "none"
    /\ ~(value.k = "str" /\ value.s = "")
    /\ ~(value.k = "num" /\ value.n = 0)

\* except (ValueError, AttributeError) of _convert_market_cap
ConvertCaught == {"ValueError", "AttributeError"}

\* A try block that hands the string to float() with its commas.
ConvertTry_CommasKept(value_str) ==
    CASE value_str.k \in {"num", "nan", "inf"} -> [raised |-> "", value |-> value_str]
      [] value_str.k = "numstr" /\ value_str.s \in {"T", "B", "M", "K", ""} ->
           [raised |-> "",
            value |-> Num(value_str.n, value_str.e + SuffixExponent(value_str.s))]
      [] OTHER -> [raised |-> "ValueError", value |-> None]

\* The try block of _convert_market_cap (metrics.py:284-295): str(), strip(),
\* the commas removed, then float() of the text before a suffix T, B, M or K
\* times its factor, or float() of the whole text.  float() raises ValueError
\* for a text that is no number, which a lower-case suffix makes it.
ConvertTry(value_str) ==
    LET text == IF value_str.k = "commastr"
                THEN NumStr(value_str.n, value_str.e, value_str.s)
                ELSE value_str
    IN CASE text.k \in {"num", "nan", "inf"} -> [raised |-> "", value |-> text]
         [] text.k = "numstr" /\ text.s \in {"T", "B", "M", "K", ""} ->
              [raised |-> "", value |-> Num(text.n, text.e + SuffixExponent(text.s))]
         [] OTHER -> [raised |-> "ValueError", value |-> None]

\* The exception that leaves _convert_market_cap ("" for none).
ConvertRaises(value_str) ==
    IF ~Truthy(value_str) \/ (value_str.k = "str" /\ value_str.s = "N/A")
    THEN ""
    ELSE IF ConvertTry(value_str).raised \in ConvertCaught THEN ""
    ELSE ConvertTry(value_str).raised

\* _convert_market_cap: what it returns.
_convert_market_cap(value_str) ==
    IF ~Truthy(value_str) \/ (value_str.k = "str" /\ value_str.s = "N/A")
    THEN None
    ELSE IF ConvertTry(value_str).raised # "" THEN None
    ELSE ConvertTry(value_str).value

\* ebitda / enterprise_value in float arithmetic, with float semantics for
\* NaN and infinities.
Divide(a, b) ==
    CASE a.k = "nan" \/ b.k = "nan" -> NaN
      [] a.k = "inf" /\ b.k = "inf" -> NaN
      [] a.k = "inf" -> Inf(IF b.n >= 0 THEN a.n ELSE 0 - a.n)
      [] b.k = "inf" -> Num(0, 0)
      [] OTHER -> FloatDiv(a, b)

\* The extractions of the inner try block, in source order.
Extractions ==
    << [field |-> "pe_ratio", pattern |-> "Trailing P/E", convert |-> "float"],
       [field |-> "pb_ratio", pattern |-> "Price/Book", convert |-> "float"],
       [field |-> "ps_ratio", pattern |-> "Price/Sales", convert |-> "float"],
       [field |-> "peg_ratio", pattern |-> "PEG", convert |-> "float"],
       [field |-> "forward_pe", pattern |-> "Forward P/E", convert |-> "float"],
       [field |-> "market_cap", pattern |-> "Market Cap", convert |-> "_convert_market_cap"],
       [field |-> "enterprise_value", pattern |-> "Enterprise Value", convert |-> "_convert_market_cap"],
       [field |-> "ebitda", pattern |-> "EBITDA", convert |-> "_convert_market_cap"] >>

\* One extraction: the first matching row's cell, converted.
Extract(val, x) ==
    LET rows == RowsContaining(val, x.pattern) IN
    IF rows = <<>> THEN [raised |-> "", found |-> FALSE, value |-> None]
    ELSE IF x.convert = "float"
    THEN [raised |-> Float(rows[1].cell).raised, found |-> TRUE,
          value |-> Float(rows[1].cell).value]
    ELSE [raised |-> "", found |-> TRUE, value |-> _convert_market_cap(rows[1].cell)]

\* The statements of the inner try block from extraction i on: the first
\* exception ends the block, the fields set before it stay set.
RECURSIVE ExtractFrom(_, _, _)
ExtractFrom(val, i, metrics) ==
    IF i > Len(Extractions)
    THEN [raised |-> "",
          metrics |->
            IF /\ Truthy(metrics["ebitda"])
               /\ Truthy(metrics["enterprise_value"])
            THEN [metrics EXCEPT !["ebitda_ev"] =
                     Divide(metrics["ebitda"], metrics["enterprise_value"])]
            ELSE metrics]
    ELSE LET r == Extract(val, Extractions[i]) IN
         IF r.raised # "" THEN [raised |-> r.raised, metrics |-> metrics]
         ELSE ExtractFrom(val, i + 1,
                IF r.found THEN [metrics EXCEPT ![Extractions[i].field] = r.value]
                ELSE metrics)

\* except (ValueError, IndexError, KeyError)
InnerCaught == {"ValueError", "IndexError", "KeyError"}

\* calculate_valuation_metrics, given how its call of _get_valuation_stats
\* ended (a fetch state of RunFetch): the exception that leaves it ("" for
\* none) and the dict it returns.  The outer handler catches every exception.
calculate_valuation_metrics(fetched) ==
    IF fetched.status = "raised" THEN [raised |-> "", metrics |-> NullValuation]
    ELSE IF fetched.value = <<>> \/ fetched.value[1] = <<>>
    THEN [raised |-> "", metrics |-> NullValuation]
    ELSE LET r == ExtractFrom(fetched.value[1], 1, NullValuation) IN
         IF r.raised = "" \/ r.raised \in InnerCaught
         THEN [raised |-> "", metrics |-> r.metrics]
         ELSE [raised |-> "", metrics |-> NullValuation]

(***************************************************************************)
(* get_metrics (metrics.py:299-344)                                        *)
(***************************************************************************)

\* metrics_calculator = StockMetricsCalculator(use_mock_data=False)
UseMockData == FALSE

\* base_prices.get(ticker, 100)
BasePrice(ticker) ==
    CASE ticker = "AAPL" -> 180
      [] ticker = "MSFT" -> 400
      [] ticker = "NVDA" -> 140
      [] ticker = "TSLA" -> 250
      [] ticker = "GLD" -> 200
      [] ticker = "SPY" -> 450
      [] ticker = "QQQ" -> 380
      [] OTHER -> 100

\* hash(ticker) % 2**32 in a CPython 3.11 process started with
\* PYTHONHASHSEED = salt (0: the hash of a string is not salted), written as
\* a decimal numeral: the values are over 2^31.
HashMod32(salt, ticker) ==
    CASE salt = 0 /\ ticker = "AAPL" -> "2151132690"
      [] salt = 0 /\ ticker = "MSFT" -> "940416937"
      [] salt = 0 /\ ticker = "ZZZZ" -> "3658811723"
      [] salt = 1 /\ ticker = "AAPL" -> "3308686401"
      [] salt = 1 /\ ticker = "MSFT" -> "3977547828"
      [] salt = 1 /\ ticker = "ZZZZ" -> "2411785123"

\* hash(ticker) % 2**32 in the process at hand: Python salts the hash of a
\* string per process, and it is the same at every call in the process.
TickerSeed(ticker) == mockrun.hash[ticker]

\* np.random.normal(0.001, 0.02, 150) and pd.date_range(periods=150)
NormalPeriods == 150

\* np.random.seed(x): the generator starts the stream of x over.
SeedGenerator(x) == [seed |-> x, pos |-> 0]

\* np.random.normal(0.001, 0.02, 150), twice over, of the generator after
\* np.random.seed(x), for each x of HashMod32: MT19937 started from x, each
\* normal deviate by the polar method, times 0.02 plus 0.001.  In units of
\* 10^-9.
NormalOfSeed2151132690 ==
    << 35462615, -39422482, 4681491, -31269131, -36344679, 13561417, 8165250, -3213897,
       2661586, 21569790, -22268546, -4060662, 1926218, 1089561, -9869027, -21782161,
       13944168, 26305781, -6064939, -17416269, -10356746, -32332911, 189331, -13526447,
       4123088, -22909696, -896874, -3610429, 25374213, 49394938, 5417970, -12197221,
       53032386, 18989672, 14513010, -15558304, 2345053, 1550874, 2935146, -25187938,
       4481932, -35460095, -31377442, -44222326, 2662806, -35521229, 4283108, 1214454,
       20872705, 31857345, -14664262, -9704156, 27196226, -4942750, 18916876, -11111052,
       -4180561, -4500754, -12420034, -33782154, 8999218, -15879813, 3863107, -223099,
       -1934746, -19415241, 18232040, -3666328, 39955383, 32525960, 10508290, 24300795,
       48141688, -14698052, -3054887, -32235975, -37075440, -27326736, 45319859, -6996234,
       -16587428, 52586190, 12760361, 14425522, 20401969, -2268114, 26587108, 14065566,
       29513780, -10495576, 13072610, 19058185, -25033865, -45717258, -24857117, -14633291,
       5875449, 16321857, -10771463, 37072683, 31438462, 11345009, -3169817, -35833691,
       16302546, 17110473, -41754921, 12129506, 23871846, 6240243, 4491620, 10919778,
       32703498, -11239771, 32578278, -145941, 19105011, -2828759, -4767394, -14917235,
       25559521, -24668014, -33042098, -32400706, 19502529, -7699339, 17378077, -3150975,
       2874414, 27315091, -11733175, 22968328, 27434964, -13142029, 30685262, 28586416,
       23093764, 6413048, -505098, 5594954, 47602194, 19439348, 23800021, 8825135,
       4244631, -1992473, -6596526, -11754591, 1157961, -20650436, 4130213, -5770763,
       43885413, 3044431, -3524788, -21415644, 23759063, 25203825, -34119192, -19149002,
       -40118578, -13848433, -14135526, -14848132, 18762494, -53235729, -2529634, -17419322,
       -4520826, -11272786, 36902521, 27991119, 26807031, 20583211, -2040530, -4033731,
       -18126503, 13646171, 2288538, 12170294, 3653437, 11153711, 19012733, 5914801,
       30293463, -38308242, -47589188, 1045109, 22121317, 2298594, 23474228, 8185717,
       3216581, 7972338, 16099760, -35850764, 2547034, -44400491, -23484454, 22092965,
       -40699654, 11809791, -2809959, 49028643, 5344032, 35570595, 633107, -53239233,
       14875887, -9541977, 37361833, 27017718, 13383777, 2612906, -6635219, 3052917,
       -26689762, 17535401, -16008361, -32335563, 21429859, 15033131, 26705147, 1571892,
       83558000, 1950376, 15542313, -27759063, -35332485, -4156498, -31099185, -10580560,
       -5727288, -9536616, -24033559, 43675947, -44923624, -11365829, -14510419, 29605872,
       -27963741, -28508243, 6317786, 10619533, 10021363, 8027817, -6648528, 36064295,
       -5914016, -22331013, -13655779, 33003208, -6413851, 6570376, 7458653, -29615873,
       25692119, -11948194, -24131039, -51141551, 6114422, 12258321, 8630631, 16758037,
       -6256394, 11259081, 5193464, 3782489, 992904, 5721724, -37503555, 21192005,
       -7408132, -12225936, -21573723, 29506831, -15909313, 3768522, -681404, 2478381,
       -1268214, -6788758, 13092688, -11320533, -27649374, 33150340, 2394505, -8813248,
       -4413922, -9101713, 23650522, 6017415, 13704029, -9020606, 26386390, 7933354,
       34039006, 20819561, 4421039, -12883494 >>

NormalOfSeed940416937 ==
    << 7892213, 11472286, -9852569, 47332785, 1159210, -8270688, -11381938, -15973111,
       -268915, -19250793, -20127788, -9233913, -10359300, 6854464, 3896102, -12479530,
       714390, -13092158, 24311032, 1149465, -24454038, 32176901, -5750978, 42626829,
       8353767, -2673916, 22023898, -13893969, 20300768, -12993426, -8324391, -16955460,
       3881965, -43582834, 49707551, 36607814, -13837707, -25909563, -4817633, -8391960,
       28948035, -30038391, 35055856, -27324823, 14264680, 35649852, -18471123, -22821471,
       -5582117, 12893480, -19200666, 2024795, -26979221, 35669910, -19165988, -20188850,
       -10520419, 6980481, -32864156, 14071110, -3527204, -32908469, -9624869, 15924748,
       7604607, 12049896, -6061442, -9922205, 18250891, 40727716, 24372413, -11593169,
       5722126, -20100792, -22663551, -31497727, -7420307, 4043212, 2832491, 11563814,
       -33375903, -17119980, -58206274, -2345894, 35661763, -12802743, -26751870, 16154267,
       11664533, 38521055, -1612988, -13671731, 6834768, 379760, 35478083, 11723330,
       -6198879, -39657174, 9452648, 21678520, -31542027, -6063679, 6128284, -13293827,
       13502688, -14231133, -1032033, 40542519, 28835172, 30190722, -15721782, 13605320,
       2292036, 2739293, -13040313, 12319566, -1747803, 6480121, -17280081, 23630687,
       18356231, 2450133, 17425354, -6348425, -13033232, -11913961, -35791029, 15192201,
       15673784, -7946936, -9218390, 1568220, -38745376, -22753247, 8698736, 23923237,
       7159301, 2239347, -969278, -12385112, -8867005, 54142, 9750427, 4271776,
       -6890417, 9745808, -5155546, 23959848, 16355975, -9239222, -8087218, -21671148,
       -10990015, -3615616, -10658813, 32478194, 5298295, -13616786, 10949964, 47058129,
       -9853019, -2736951, 20520120, 24573066, -12076789, 4169373, 7280968, 33341539,
       -17548502, -50646552, 5230104, -25069631, 26011002, 24517268, -1171270, -10376708,
       -20304958, -18102408, -32005874, -3578488, -5841425, -14607240, -720878, -32665066,
       -4320969, -15151353, -6632584, 8776629, 748691, -10237612, 18210106, -18761811,
       -42100135, -10479309, 15200331, 35832572, 18628020, 24648041, -13201387, -5884570,
       22046366, 2701285, 4011845, -10192815, 8021784, 7049767, 19857894, -7984688,
       31845880, -32753898, 26671167, -4355254, 19220105, 28054179, 21505667, -18388411,
       -19237827, 41784064, -6109695, -32924379, 20357655, 6135458, 940134, 12903100,
       38779238, 28572210, 5609108, 34341655, -7443711, 26111210, -4887396, 16916062,
       13870963, 11336134, -13986348, 946473, 24504780, -3624329, -21528925, -8768510,
       18166285, 5776223, 5028571, 20212577, -28744471, -43590644, -18083518, 15851533,
       -28803741, 13981510, -15568302, -9537657, -19053747, 46647534, 13256345, 13635498,
       20382265, -22748071, -14247626, -13199387, 11249145, -9831470, -18220279, 37338296,
       34360220, 47733707, -15259805, 16584212, -8881226, 17164020, 7419795, -1702471,
       -3758227, -34497106, 5805078, -7830007, -22029180, 11281042, 9044678, -6663105,
       -7919841, -21283905, -34647914, -421263, 20215681, -25246890, -4158375, 8155869,
       -1249764, 8303815, -24095823, -11591485, -20163301, 17427758, 6496630, -11095699,
       -37817968, 4667328, 11109552, -23300790 >>

NormalOfSeed3658811723 ==
    << -54067336, -366646, -17218664, 23592747, -5741986, -2547396, 4867176, 25704848,
       8648932, -17335759, -3013127, 6588385, 28609685, -31926407, -38541861, 15954455,
       -24431070, -5478882, -1900616, 23609726, -3396940, -5781572, -9284019, -2735099,
       -39110259, -15704910, -4991135, 6380901, -28492119, -3039567, -6985139, 1310261,
       -8058763, -3496803, 2930588, -14011598, 16901368, 10224749, 22467948, -5669794,
       13332312, -25598497, 17387399, -8193801, -4502658, -4021577, -2788314, 10177682,
       26363850, 13734646, 16158393, 11194632, -13048615, 18227462, -4363074, -23843810,
       31596048, -15456352, 23175036, -56731416, 4669714, -15679941, -7106210, 25444100,
       15351300, -5300535, 19467202, -8100492, 10152748, 113636, -7857161, -7768670,
       10676162, -21590379, -3788039, 9249390, 5618169, 11751766, -22271322, 27739166,
       11965421, 8774075, -552899, -1228669, -3972475, 18072317, -15022895, -15781078,
       -8821034, -29544964, -41655767, -21245639, -29586954, -28290184, -18888584, -9641111,
       -12683366, 4418497, -14874850, 2053661, 21396658, -2042685, 2453618, 35082357,
       26706428, -6791598, -6362862, -21491336, 25166591, -10939250, 26978987, -5278424,
       3963700, -19940023, 14915499, -6847437, 30777650, -6119549, 1843744, -25155127,
       -925993, 40502075, 2871928, 6052497, -4031740, 22965565, 12424105, 8630602,
       -33533904, 22284414, -1386067, -11598, -7331894, -757070, 36085096, 9846163,
       -5707761, -5364823, 2355869, 20177994, 27058623, 11589843, 6127013, 12364240,
       -3878852, -41003834, 620546, -4726787, 38046503, -16072109, -17902284, 19146817,
       -20395326, -2552901, -37827761, -17518338, 36567166, 3656184, 16251754, 21235148,
       23286214, -4402965, 21841192, 33160002, -40320916, 16585686, -18151187, -16649034,
       -16586544, 49590124, -5659062, -3595660, 10783341, 49110242, 15902085, 2255775,
       33124502, -21618545, -163683, 9947252, 18916554, -63475959, 3691896, 7839094,
       -26890499, -4214778, 30048511, 11497458, -16593992, 7002370, 25393067, 16769820,
       21119297, -21201026, 6583790, -7824906, -3060674, 25659065, 16414627, -3576551,
       42207041, 2122138, -30936193, -10734688, 3540632, 23144108, -13399074, 13188149,
       20129293, 9097407, -6789115, 8646984, 3320865, 10525189, 28654930, 5758717,
       -14925813, -8987230, -4535791, 11656292, 3569559, 2989844, 13333078, 2900065,
       9070898, 37091689, 5286839, -10696212, -7491821, 26929751, -5075557, 12656754,
       -19722638, -22945179, 10902592, -14256738, 29411626, -12344932, 1858336, 25062071,
       -33311341, 15411188, 27439617, -498258, -19202243, 1972937, 27960066, 21415239,
       12342360, 4207329, 471174, 17183959, 16296940, -29832201, 27579521, 12215342,
       -6365470, 643430, 569411, -12019118, 5289999, 10491296, -18925201, 12145817,
       11797869, 10065556, -27877680, 11153346, 14206504, 30390586, 4543585, -15043225,
       11125963, -9668839, -6463763, -29152931, 28122399, 2430725, -20206446, -21972820,
       20768938, 15524004, -16058935, -9572313, -22828098, -14360717, 35662692, -683799,
       29010903, -30247520, -4395367, 11863195, 13191989, -15245950, -2917881, -8754539,
       689423, 19823505, 19053580, -14027924 >>

NormalOfSeed3308686401 ==
    << 8556810, 9702403, -49600248, 1550740, 17723778, -5750174, 31687720, 3098777,
       -7442428, -40761072, 17570098, 48693238, -42221358, -4094978, -23513257, -45524022,
       8282833, -1648260, -40481448, -4538639, -1127690, -6948136, -163108, 20230536,
       -1484259, -12291761, 28938796, 8003538, 26236148, 6576552, -6346335, 23072516,
       -17846348, -18080323, -19854668, 29963757, -13858435, -588523, 20609876, 20083473,
       7411047, -44245558, -40944120, 22133096, -12102637, 13905627, 15111501, 9175492,
       9079887, -5678517, 12139451, 77849, 9188325, 17904357, 37455169, -26106603,
       20915263, -21606577, 1151668, -11093751, 42375979, -8654738, -21566636, 7387747,
       10632907, -32210984, 48505356, 15771804, 22734938, 43275992, 10169990, 1065412,
       -19528923, 8526624, -14592561, -1432638, 13209502, -20197749, 23089396, 2820793,
       15038655, 18372798, -16480264, -17447732, -18788135, 2130899, 37950384, 1510391,
       -4710269, -13352419, -8224835, -11152546, 19981996, 33523967, -2005574, 8389584,
       -10751171, 1278381, 19141954, 22111549, 24088855, 14780615, 2243015, 21080627,
       -16426827, 17718417, -25187593, 12682328, -10628537, -3832423, 4947823, 24430364,
       -3278012, -18942390, 225580, 8292912, 16139963, 38219729, -5349554, 5342519,
       8296061, -4785543, 21268859, -10100213, 18063385, 9848284, -19924151, -43822099,
       -18155290, -366040, 58948554, -990070, -26521546, 10190181, 14853696, -820096,
       898760, 24311533, 5009778, 14221148, 10494855, 9454288, 8795117, -20829589,
       -5753812, 5396766, -374735, 13684653, -1247777, -3513455, 24786487, -11564960,
       -2799552, -11634219, -9274901, 8482930, -2561435, 14761940, 5987118, 7421255,
       -22669350, 12140802, 20660500, 18183804, 14065540, 18768965, -23179246, -5017774,
       -9128876, -679378, -45958174, -7598901, -23277880, 4283625, 1219988, -9580858,
       -10027091, 7946929, -1925312, 1539918, 21755586, 5019091, -6171054, -1734023,
       -6560515, 19877364, -192195, 22920271, 3273478, 2674913, 22756685, -2250716,
       -18367936, 17472425, 3719411, 48307503, -35308076, -43303488, -8604256, 1189991,
       -22590271, 8253240, 8231128, -23307831, 48963693, 19385433, 13173489, -45496441,
       -12961065, 17971571, 54321141, 46563108, 37059812, 24540917, -2925903, -6136670,
       21309759, 8913074, -20393356, -19890952, -10519554, 9134974, -8360423, -16141202,
       -24075445, -110547, 27027382, 32382204, 7020592, -38968138, -13194130, -2242138,
       21738793, 30639533, 36895239, -5787315, 14048537, 9269470, 41480701, -18033512,
       1409288, -34201613, -13530286, -8649041, -5509598, -1420351, 15593734, -18463531,
       14938985, -12555689, -26182994, 1912569, -11438358, -44288279, -24818866, -1994920,
       18006622, 538707, -10091216, -13428137, 21718882, 16584100, 14527209, 15033800,
       -16949834, 507070, 9863420, 11912388, -4486315, -6246173, -50491235, -9712919,
       -5160365, 23182862, -10367032, -38524516, -19330846, 9576075, 12624723, -31323570,
       -2137403, -9751553, 6943242, 10287635, -9066998, 23256769, -24775393, 11096447,
       -2051694, -15377557, -11174607, 19007405, 956490, 13630288, -19284138, 42251906,
       25049285, -16640398, -7079683, 6445386 >>

NormalOfSeed3977547828 ==
    << 16590736, -39238558, -32500710, -10276815, -10706356, -29547794, -5751842, 34139209,
       881854, 12596623, 17879666, -1249015, 3153950, 13502237, 9268921, 262745,
       -7642440, -9885819, 6196037, -20614035, 3434753, -19973211, 13227683, -3579784,
       -7935855, -12050490, -17559744, 59175725, -25604106, 21254978, 19216678, -17966952,
       -22032251, -1979282, 1177464, -49223838, 10696243, 31955570, -16294308, -7990771,
       -12021613, 11854624, 6940457, -3431837, -18509048, 13112713, 40198575, -24826129,
       -32426177, -42998717, 3703577, 10712508, 9987314, -569556, -5270317, 3654398,
       -8793573, -11651574, 15557711, 8446182, -7254052, -9647452, -12084117, 14119050,
       -24885194, -15440508, -26756156, 2627821, 12520468, 6215398, 25100300, -21167314,
       1722873, 6151581, 4768368, -890567, 13304942, -13570773, -5341321, -6252777,
       -18568421, 10872942, -19770152, 2736398, -12778295, -20458072, 1105044, 20067377,
       3461392, -1754090, -3080647, 19399813, 29562025, -45960670, -9736762, 3473410,
       5076078, -12006225, 37768993, -35555307, -714182, -29489563, 6577473, 17950752,
       -39814358, -8891103, -8356365, 12823605, 7715992, 15533512, 20091606, -11403167,
       -5810599, 19485760, -47791449, 3206392, 24061325, 23161016, -481226, -18510470,
       -8922406, 14066305, -14471028, -9568392, -28270850, 11850849, 755812, 12269763,
       13402176, -4699803, 1540712, 7221143, -19211424, 7320679, 17005485, 4540437,
       -3211429, 11930239, -2132794, 25106923, 32142176, -808092, -6515543, -3301817,
       -2560809, -13289421, 3159892, -17744383, -14549538, -25635344, 24002266, 30315228,
       20047308, 1876392, 41773858, 32027452, 10282198, -32201254, -27505575, 13385391,
       36907, -7963831, 8757530, -1085558, 20899427, 3843715, 9393617, -3763779,
       25923849, 10168637, -892417, 12772533, 20588433, -16291073, 30964127, -43630122,
       12089615, 6575449, -675313, 13641204, -11600125, -3699019, 15540356, -11564971,
       -9057736, -22840743, -21590857, -31597758, 22555468, 19683167, 306898, -5929280,
       20020951, 40021261, -11650384, 57030265, 14741238, -24444203, -51116099, -12073932,
       22337925, -1922281, -9870479, 27283854, 8123920, -10306873, -14750958, 5761606,
       -35214765, -22037422, 4101632, -24283247, 29723736, -6884763, -18081043, 30559897,
       -246905, 25178693, -14990017, -17544580, -12954952, -25845919, -31643147, 8199812,
       -11224706, -6180543, 12616177, -9640047, 8826493, 7848447, -506899, -6618698,
       21654442, -6633145, -17436372, 22812287, -16942923, -23552549, -12374140, 8745678,
       4747605, 14861914, -26604179, -35899675, 25882046, 3745992, 4856822, 11145790,
       18595125, 18720535, -5389631, 38003372, 38105116, 27128023, -25315970, 15382333,
       -2476620, -36815148, -14829949, 15046830, 5959354, 14238835, 17122422, -17792574,
       16053962, -5857733, 1161736, -9536704, -19374468, 8919564, -1057542, 24941695,
       -2908284, -12234723, -8463275, -7602261, 7286691, -8263573, -1002636, -5826768,
       -3416058, 5490699, 7226187, 14543758, -10328, 14826179, -2082792, -13918082,
       -27841021, 20197240, -43954166, 29513858, 38104791, 4248546, 4354509, -15625639,
       9006034, -12863339, 9202174, -46517210 >>

NormalOfSeed2411785123 ==
    << -1744197, 1900880, 47466252, -16570896, -6403986, 22413763, -14549291, 31102167,
       5768767, 23982964, 14948442, 52166266, -43476411, 32712215, -27998336, -3149504,
       17139878, 16317623, 24729799, 9418070, -4112050, 6288710, 18207891, 263738,
       37078347, 56553488, 17466637, -5154892, 12732267, -27683760, 1216329, -46278971,
       3434712, 12937204, -8268794, 4534725, -10940959, -22236687, 29512112, 13961668,
       7549891, 14722471, 14139026, 9126408, 6681441, -4611089, -42838055, -26031936,
       -1259023, -9682462, -14797107, 1329797, 11018961, 8921212, -6211402, 135912,
       3199227, -1844253, 20326448, -4892465, -9627673, -15813727, -17612106, -7972959,
       -8616329, -6415544, 3261230, 10662352, 17883730, 9034291, 2576191, -6031962,
       -118227, 16534143, -23544311, -27702056, 28473610, -7454040, 35974252, 20898989,
       34116074, -3111654, -27005237, 18120739, -16289658, -5277716, 16391149, -41286576,
       -16603917, 7565807, 34469307, 11159952, -28663955, -5855398, 28630622, 4879902,
       22391218, -17819293, 34046622, -13442098, 16260834, -895857, 18495807, 3444410,
       -5758057, 30388866, 31256110, -22838006, -8798388, 13685152, -15848148, 46543382,
       13679025, 46648462, 29314317, 28310778, 17161810, 1219041, 7762253, 30395140,
       12560272, 12402109, -4209770, 39617382, -12941797, 18061266, 29448120, -25823246,
       -45230064, 32613350, 47183244, 29694825, 15301713, 5068502, -33167280, -2254777,
       -25556063, 11596500, 26993141, -21579614, -8995091, 3035494, -7662130, 21665384,
       -185201, -40384869, -20042159, -3358268, -6761733, 4769499, -33647322, 31233152,
       19470116, -25354439, -7572287, -25943485, 16242256, 37548427, -17270675, 19678255,
       -44767883, -12850313, -309996, 16752313, 12153087, -10867344, 33232805, -9705664,
       -9460258, 25530200, -12465206, -4723616, -48767764, -11394635, 9292490, -3912440,
       20865333, -12903053, 2815226, 6674741, 16438011, 35493853, 12633866, -26381504,
       -36118363, 9529746, -18608868, -10520631, 22922854, 17924743, 9390323, -18495611,
       -26421192, 23288087, -6670763, -3898187, -7409394, -17967843, 11831903, 12957527,
       -15923367, 8181316, 29859144, -38481823, 14620702, -15672806, 4784465, -26552730,
       10174730, 6809362, 190219, 13062913, 11010375, -36615732, -38383191, 33764546,
       6344877, 33898520, 3896222, -6402265, 20757944, 926110, 23688890, -8700561,
       -5716996, 20039984, 51721784, 3998160, -5102454, 12781469, -6630806, 9352913,
       23141279, -5396589, 14259095, 24576856, -14549622, -16739756, -15062211, -29998508,
       -10043835, -15698871, -9625510, 575466, -25278685, -15624520, 13139454, 12968728,
       -16465314, -18321720, -7799262, 16320971, 2666782, 9854245, 3355784, -21759128,
       34719152, 10324022, -19045277, 28703073, 38963319, -9921700, 13744881, 20850351,
       -8473251, 23118117, 5078309, -4142049, -14634243, 8799876, -17703759, -18349334,
       12365161, -2057008, 26858776, 11327756, -28393890, -42692450, 23668387, 23374784,
       9665944, 16880248, 1265705, 35569944, 18115148, -7728097, 19350997, 7686781,
       10280100, 12984994, 1725188, -4566081, -7547033, -12360581, 773632, -45507362,
       8557864, -3420230, 36857340, 15628392 >>

\* The stream of normal draws the seed gives.
NormalStream(seed) ==
    CASE seed = "2151132690" -> NormalOfSeed2151132690
      [] seed = "940416937" -> NormalOfSeed940416937
      [] seed = "3658811723" -> NormalOfSeed3658811723
      [] seed = "3308686401" -> NormalOfSeed3308686401
      [] seed = "3977547828" -> NormalOfSeed3977547828
      [] seed = "2411785123" -> NormalOfSeed2411785123

\* np.random.normal(0.001, 0.02, 150) with the generator in state gen: draw
\* i of the 150.
Draw(gen, i) == Num(NormalStream(gen.seed)[gen.pos + i], -9)

\* One step of the walk: prices.append(max(prices[-1] * (1 + ret), 1.0))
WalkStep(price, ret) ==
    FloatMax(FloatMul(price, FloatAdd(Num(1, 0), ret)), Num(1, 0))

\* The prices of the walk from close i on: acc is the list of prices so far.
\* returns[0] is drawn and not used (for ret in returns[1:]).
RECURSIVE WalkRun(_, _, _, _)
WalkRun(gen, i, n, acc) ==
    IF n = 0 \/ Len(acc) = 0 \/ i > NormalPeriods THEN acc
    ELSE WalkRun(gen, i + 1, n - 1,
                 Append(acc, WalkStep(acc[Len(acc)], Draw(gen, i))))

RECURSIVE Walk(_, _, _)
Walk(gen, i, acc) ==
    IF i > NormalPeriods \/ Len(acc) = 0 THEN acc
    ELSE Walk(gen, i + EwmBlock, WalkRun(gen, i, EwmBlock, acc))

\* The closes _generate_mock_historical_data builds from the draws it takes
\* with the generator in state gen: the base price first, then the walk the
\* draws give.  (open, high, low and volume come from the random module and
\* no metric reads them.)
MockPrices(ticker, gen) ==
    Frame(Walk(gen, 2, <<AsFloat(Num(BasePrice(ticker), 0))>>))

\* _generate_mock_valuation_data
MockValuation(ticker) ==
    LET row(a, n, e, x) == [attr |-> a, cell |-> NumStr(n, e, x)] IN
    CASE ticker = "AAPL" ->
           << row("Market Cap (intraday)", 285, -2, "T"),
              row("Enterprise Value", 279, -2, "T"),
              row("Trailing P/E", 2845, -2, ""),
              row("Forward P/E (1y)", 2520, -2, ""),
              row("PEG Ratio (5 yr expected)", 285, -2, ""),
              row("Price/Sales (ttm)", 812, -2, ""),
              row("Price/Book (mrq)", 3985, -2, ""),
              row("EBITDA", 1305, -1, "B") >>
      [] ticker = "MSFT" ->
           << row("Market Cap (intraday)", 312, -2, "T"),
              row("Enterprise Value", 305, -2, "T"),
              row("Trailing P/E", 3215, -2, ""),
              row("Forward P/E (1y)", 2890, -2, ""),
              row("PEG Ratio (5 yr expected)", 245, -2, ""),
              row("Price/Sales (ttm)", 1285, -2, ""),
              row("Price/Book (mrq)", 1225, -2, ""),
              row("EBITDA", 1182, -1, "B") >>
      [] ticker = "NVDA" ->
           << row("Market Cap (intraday)", 358, -2, "T"),
              row("Enterprise Value", 352, -2, "T"),
              row("Trailing P/E", 6545, -2, ""),
              row("Forward P/E (1y)", 4520, -2, ""),
              row("PEG Ratio (5 yr expected)", 185, -2, ""),
              row("Price/Sales (ttm)", 5585, -2, ""),
              row("Price/Book (mrq)", 4825, -2, ""),
              row("EBITDA", 856, -1, "B") >>
      [] OTHER ->
           << row("Market Cap (intraday)", 500, -1, "B"),
              row("Enterprise Value", 485, -1, "B"),
              row("Trailing P/E", 2250, -2, ""),
              row("Forward P/E (1y)", 2015, -2, ""),
              row("PEG Ratio (5 yr expected)", 195, -2, ""),
              row("Price/Sales (ttm)", 425, -2, ""),
              row("Price/Book (mrq)", 385, -2, ""),
              row("EBITDA", 85, -1, "B") >>

\* {"ticker": ticker, **momentum_metrics, **valuation_metrics}
Combine(ticker, momentum_metrics, valuation_metrics) ==
    [f \in RequiredFields \cup ValuationFields |->
        IF f = "ticker" THEN ticker
        ELSE IF f \in MomentumFields THEN momentum_metrics[f]
        ELSE valuation_metrics[f]]

NotFetched == FetchStart("_get_valuation_stats", UseMockData)

\* The mock frame of a calculator that is not in mock mode:
\* _generate_mock_historical_data is not called (metrics.py:47-48).
\* get_metrics_mock is get_metrics of a calculator in mock mode.
NotGenerated == <<>>

\* get_metrics that fetches the valuation table before it looks at the
\* number of bars.
get_metrics_ValuationFirst(ticker, hist_script, val_script) ==
    LET hist == RunFetch(FetchStart("_get_historical_data", UseMockData),
                         hist_script, NotGenerated)
        val == RunFetch(NotFetched, val_script, MockValuation(ticker))
    IN
    IF hist.status = "raised"
    THEN [ret |-> <<>>, hist |-> hist, momentum |-> <<>>, val |-> NotFetched]
    ELSE IF hist.value = <<>> \/ hist.value[1].len < Window
    THEN [ret |-> <<>>, hist |-> hist, momentum |-> <<>>, val |-> val]
    ELSE
      LET momentum == calculate_momentum_metrics(hist.value[1])
          valuation == calculate_valuation_metrics(val)
          metrics == Combine(ticker, momentum.metrics[1],
                             IF valuation.raised # "" THEN NullValuation
                             ELSE valuation.metrics)
      IN IF momentum.raised # ""
         THEN [ret |-> <<>>, hist |-> hist, momentum |-> <<>>, val |-> NotFetched]
         ELSE IF ~_validate_momentum_metrics(metrics)
         THEN [ret |-> <<>>, hist |-> hist, momentum |-> momentum.metrics, val |-> val]
         ELSE [ret |-> <<metrics>>, hist |-> hist, momentum |-> momentum.metrics,
               val |-> val]

\* get_metrics against a provider that answers the historical requests as
\* hist_script says and the valuation requests as val_script says.
\* ret is <<>> for None, <<metrics>> for a record; hist and val are the two
\* fetcher invocations as they ended (val not started when it was not made);
\* momentum is the local momentum_metrics (<<>> when it was not computed).
get_metrics(ticker, hist_script, val_script) ==
    LET hist == RunFetch(FetchStart("_get_historical_data", UseMockData),
                         hist_script, NotGenerated)
    IN
    IF hist.status = "raised"
    THEN [ret |-> <<>>, hist |-> hist, momentum |-> <<>>, val |-> NotFetched]
    ELSE IF hist.value = <<>> \/ hist.value[1].len < Window
    THEN [ret |-> <<>>, hist |-> hist, momentum |-> <<>>, val |-> NotFetched]
    ELSE
      LET momentum == calculate_momentum_metrics(hist.value[1])
          val == RunFetch(NotFetched, val_script, MockValuation(ticker))
          valuation == calculate_valuation_metrics(val)
          metrics == Combine(ticker, momentum.metrics[1],
                             IF valuation.raised # "" THEN NullValuation
                             ELSE valuation.metrics)
      IN IF momentum.raised # ""
         THEN [ret |-> <<>>, hist |-> hist, momentum |-> <<>>, val |-> NotFetched]
         ELSE IF ~_validate_momentum_metrics(metrics)
         THEN [ret |-> <<>>, hist |-> hist, momentum |-> momentum.metrics, val |-> val]
         ELSE [ret |-> <<metrics>>, hist |-> hist, momentum |-> momentum.metrics,
               val |-> val]

(***************************************************************************)
(* Database (database.py:12-74)                                            *)
(***************************************************************************)

\* The columns of StockMetrics.
Columns ==
    {"ticker", "last_price", "ma_100", "ema_100", "pct_above_ma_100",
     "pct_above_ema_100", "pe_ratio", "pb_ratio", "ps_ratio", "market_cap",
     "enterprise_value", "ebitda", "ebitda_ev", "updated_at"}

\* settings.RECENT_DATA_AGE_LIMIT_DAYS
RECENT_DATA_AGE_LIMIT_DAYS == 1

\* Clock ticks per day (the unit of now and of updated_at).
TicksPerDay == 2

\* The row session.merge starts from: the stored row of the ticker, or a new
\* one with NULL columns whose updated_at is the column default, utcnow at
\* the INSERT.
MergeInto(tbl, ticker, time) ==
    IF ticker \in DOMAIN tbl THEN tbl[ticker]
    ELSE [c \in Columns |->
            IF c = "ticker" THEN ticker
            ELSE IF c = "updated_at" THEN time ELSE None]

\* The value the row holds for what metrics gives column c: the driver of
\* create_engine("sqlite:///...") binds a float NaN as NULL, so NaN is stored
\* and read back as None; an infinity is stored as it is.
Bound(c, value) ==
    IF c \in {"ticker", "updated_at"} THEN value
    ELSE IF value.k = "nan" THEN None ELSE value

\* A merge that is not keyed by ticker: the merged row replaces the table.
Merge_SingleRow(tbl, metrics, time) ==
    LET ticker == metrics["ticker"]
        old == MergeInto(tbl, ticker, time)
        new == [c \in Columns |-> IF c \in DOMAIN metrics THEN Bound(c, metrics[c]) ELSE old[c]]
    IN [t \in {ticker} |-> new]

\* session.merge(StockMetrics(**metrics)) at clock time: the stored row of
\* that ticker, created when absent, takes every attribute metrics sets.
Merge(tbl, metrics, time) ==
    LET ticker == metrics["ticker"]
        old == MergeInto(tbl, ticker, time)
        new == [c \in Columns |-> IF c \in DOMAIN metrics THEN Bound(c, metrics[c]) ELSE old[c]]
    IN [t \in DOMAIN tbl \cup {ticker} |-> IF t = ticker THEN new ELSE tbl[t]]

\* metrics['updated_at'] = datetime.utcnow(): the caller's dict takes the key.
Stamp(metrics, time) ==
    [c \in DOMAIN metrics \cup {"updated_at"} |->
        IF c = "updated_at" THEN time ELSE metrics[c]]

\* The loop of store_metrics from record i on, on the session's view of the
\* table, and the commit's flush: the exception raised, the session's table
\* and the number of dicts the loop reached.  Each dict is stamped before
\* StockMetrics(**metrics) raises TypeError for a key that is no column.  A
\* row without ticker stays pending (true of the flag) until the session
\* flushes, at the start of the next merge or at the commit, and the INSERT
\* fails on the NOT NULL primary key.
RECURSIVE MergeFrom(_, _, _, _, _)
MergeFrom(tbl, metrics_list, i, time, pending) ==
    IF i > Len(metrics_list)
    THEN [raised |-> IF pending THEN "IntegrityError" ELSE "", table |-> tbl,
          reached |-> Len(metrics_list)]
    ELSE LET metrics == Stamp(metrics_list[i], time)
         IN IF ~(DOMAIN metrics \subseteq Columns)
            THEN [raised |-> "TypeError", table |-> tbl, reached |-> i]
            ELSE IF pending
            THEN [raised |-> "IntegrityError", table |-> tbl, reached |-> i]
            ELSE IF "ticker" \notin DOMAIN metrics
            THEN MergeFrom(tbl, metrics_list, i + 1, time, TRUE)
            ELSE MergeFrom(Merge(tbl, metrics, time), metrics_list, i + 1, time, FALSE)

\* The caller's list after the loop reached its first n dicts: they are
\* stamped in place.
StampedList(metrics_list, n, time) ==
    [j \in 1..Len(metrics_list) |->
        IF j <= n THEN Stamp(metrics_list[j], time) ELSE metrics_list[j]]

\* store_metrics that leaves the session's merges in place when it raises.
store_metrics_NoRollback(tbl, metrics_list, time, commit_ok) ==
    IF metrics_list = <<>> THEN [raised |-> "", table |-> tbl, reached |-> 0]
    ELSE LET session == MergeFrom(tbl, metrics_list, 1, time, FALSE) IN
         IF session.raised # "" THEN session
         ELSE IF ~commit_ok
         THEN [raised |-> "OperationalError", table |-> session.table,
               reached |-> session.reached]
         ELSE session

\* store_metrics at clock time: the exception raised ("" for none), the table
\* afterwards and the number of dicts of the caller's list that were reached
\* and so stamped in place (StampedList gives the list afterwards).
\* commit_ok is whether the engine accepts the commit.
store_metrics(tbl, metrics_list, time, commit_ok) ==
    IF metrics_list = <<>> THEN [raised |-> "", table |-> tbl, reached |-> 0]
    ELSE LET session == MergeFrom(tbl, metrics_list, 1, time, FALSE) IN
         IF session.raised # ""
         THEN [raised |-> session.raised, table |-> tbl, reached |-> session.reached]
         ELSE IF ~commit_ok
         THEN [raised |-> "OperationalError", table |-> tbl,
               reached |-> session.reached]
         ELSE session

\* A freshness test that counts a row of exactly the limit's age as recent.
has_recent_metrics_Inclusive(tbl, ticker, age_limit_days, time) ==
    /\ ticker \in DOMAIN tbl
    /\ time - tbl[ticker]["updated_at"] <= age_limit_days * TicksPerDay

\* has_recent_metrics
has_recent_metrics(tbl, ticker, age_limit_days, time) ==
    /\ ticker \in DOMAIN tbl
    /\ time - tbl[ticker]["updated_at"] < age_limit_days * TicksPerDay

\* The tickers of a sequence of portfolio rows.
RowTickers(rows) == {rows[i] : i \in DOMAIN rows}

\* session.query(Portfolio).filter_by(ticker=ticker).first(): whether a row
\* was found.
PortfolioQuery(rows, ticker) == ticker \in RowTickers(rows)

\* An INSERT into a portfolio table without a primary key.
InsertRow_NoPrimaryKey(rows, ticker) == [raised |-> "", rows |-> Append(rows, ticker)]

\* INSERT of a Portfolio row: ticker is the primary key, a second row of the
\* same ticker is refused with IntegrityError.
InsertRow(rows, ticker) ==
    IF ticker \in RowTickers(rows) THEN [raised |-> "IntegrityError", rows |-> rows]
    ELSE [raised |-> "", rows |-> Append(rows, ticker)]

\* session.add(Portfolio(ticker=ticker)); session.commit() with its except
\* branch: the exception raised ("" for none) and the rows afterwards.
\* commit_ok is whether the engine accepts the commit.
AddCommit(rows, ticker, commit_ok) ==
    IF ~commit_ok THEN [raised |-> "OperationalError", rows |-> rows]
    ELSE InsertRow(rows, ticker)

\* session.delete(record); session.commit(): the DELETE is by primary key,
\* and a row that is gone by then is a warning, not an exception.
DeleteCommit(rows, ticker, commit_ok) ==
    IF ~commit_ok THEN [raised |-> "OperationalError", rows |-> rows]
    ELSE [raised |-> "", rows |-> SelectSeq(rows, LAMBDA t : t # ticker)]

\* add_portfolio_ticker run without another session in between.
add_portfolio_ticker(rows, ticker, commit_ok) ==
    IF PortfolioQuery(rows, ticker) THEN [raised |-> "", rows |-> rows]
    ELSE AddCommit(rows, ticker, commit_ok)

\* delete_portfolio_ticker run without another session in between.
delete_portfolio_ticker(rows, ticker, commit_ok) ==
    IF ~PortfolioQuery(rows, ticker) THEN [raised |-> "", rows |-> rows]
    ELSE DeleteCommit(rows, ticker, commit_ok)

(***************************************************************************)
(* State                                                                   *)
(*   fx     a fetcher invocation in progress (retry layer position)        *)
(*   vx     the last call of a pure method of the calculator               *)
(*   table  the rows of the metrics table, by ticker                       *)
(*   now    the clock (utcnow), in ticks                                   *)
(*   st     the last store_metrics call                                    *)
(*   mockrun  the process-wide numpy generator (np.random) and the        *)
(*          get_metrics calls of a calculator in mock mode                 *)
(*   run    a process_tickers_batch run: its position, the tickers whose   *)
(*          get_metrics call is under way, the list built by               *)
(*          get_metrics_batch, and per ticker how get_metrics ended        *)
(*   drv    a run of a per-ticker driver: its position in the ticker list  *)
(*          and its counters                                               *)
(*   pf     the rows of the portfolio table and the calls and requests     *)
(*          that work on it                                                *)
(***************************************************************************)

IdleFetch == [FetchStart("_get_historical_data", FALSE) EXCEPT !.status = "idle"]

IdleCall == [op |-> "idle", input |-> <<>>, output |-> <<>>, raised |-> ""]

EmptyTable == [t \in {} |-> None]

IdleStore ==
    [called |-> FALSE, list |-> <<>>, repeated |-> FALSE, commit_ok |-> TRUE,
     raised |-> "", at |-> 0]

\* No get_metrics call in mock mode: the numpy generator as the interpreter
\* started it, seeded from the operating system.
InitialGenerator == [seed |-> "os", pos |-> 0]

\* No calculator in mock mode: no ticker hashed, no stream drawn from.
IdleMock ==
    [np_random |-> InitialGenerator, calls |-> <<>>,
     hash |-> [t \in {} |-> ""]]

\* No per-ticker driver was started.
IdleDriver ==
    [pc |-> "idle", driver |-> "", tickers |-> <<>>, i |-> 1, successful |-> 0,
     failed |-> 0, tally |-> <<>>]

\* An empty portfolio table and no call on it.
IdlePortfolio == [rows |-> <<>>, calls |-> <<>>, last |-> <<>>]

IdleRun ==
    [pc |-> "idle", tickers |-> <<>>, batch_size |-> 0, i |-> 1,
     in_flight |-> {}, all_metrics |-> <<>>, log |-> <<>>, batch_delays |-> 0,
     tally |-> <<>>, stored |-> FALSE, raised |-> ""]

(***************************************************************************)
(* SpecFetch: one fetcher invocation, attempt by attempt                   *)
(***************************************************************************)

\* What the provider may do on call n: rows (tagged with n), nothing, or one
\* of the exceptions.
ProviderOutcomes(n) ==
    {ProviderData(n), ProviderEmpty} \cup {ProviderRaise(err) : err \in ErrorKinds}

InitFetch ==
    /\ fx = IdleFetch
    /\ vx = IdleCall
    /\ table = EmptyTable
    /\ now = 0
    /\ st = IdleStore
    /\ run = IdleRun
    /\ mockrun = IdleMock
    /\ drv = IdleDriver
    /\ pf = IdlePortfolio

\* A caller invokes one of the three fetchers, in live or in mock mode.
CallFetcher ==
    /\ fx.status = "idle"
    /\ \E fetcher \in Fetchers, mock \in BOOLEAN : fx' = FetchStart(fetcher, mock)
    /\ UNCHANGED <<vx, table, now, st, run, mockrun, drv, pf>>

\* The retry layer runs the next attempt.
Attempt ==
    /\ fx.status = "running"
    /\ \E o \in ProviderOutcomes(fx.attempt_number + 1) : fx' = AttemptStep(fx, o, 0)
    /\ UNCHANGED <<vx, table, now, st, run, mockrun, drv, pf>>

NextFetch == CallFetcher \/ Attempt

SpecFetch == InitFetch /\ [][NextFetch]_vars

\* The provider raised on call i, with an exception the retry filter lets retry.
RaisedRetryable(o) == o.k = "raise" /\ RetryIfExceptionType(o.err)

\* The provider raised on call i, with an exception the classifier calls
\* rate-limited.
RaisedRateLimited(o) == o.k = "raise" /\ IsRateLimitedError(o.err) = "yes"

AllOutcomes(f, n, P(_)) == \A i \in 1..n : P(f.outcomes[i])

LiveFetch == fx.status # "idle" /\ ~fx.mock

\* C4: when every provider call of a fetcher invocation raises an exception
\* of a retryable type, the invocation makes exactly 5 provider calls, never a
\* sixth, and ends by raising.
C4_ExhaustsFiveAttempts ==
    (LiveFetch /\ AllOutcomes(fx, Len(fx.outcomes), RaisedRetryable)) =>
        /\ fx.calls <= StopAfterAttempt
        /\ fx.status # "returned"
        /\ fx.status = "raised" => fx.calls = StopAfterAttempt

\* C5: while only rate-limited errors have been raised, and fewer than 5, the
\* fetch goes on; if the first k calls (0 <= k <= 4) raise a rate-limited
\* error and call k+1 succeeds, the fetcher returns what call k+1 returned and
\* exactly k+1 provider calls were made.
C5_RetryThenSuccess ==
    LiveFetch =>
      \A k \in 0..(StopAfterAttempt - 1) :
        /\ (Len(fx.outcomes) = k /\ AllOutcomes(fx, k, RaisedRateLimited)) =>
              (fx.status = "running" /\ fx.calls = k)
        /\ (/\ Len(fx.outcomes) > k
            /\ AllOutcomes(fx, k, RaisedRateLimited)
            /\ fx.outcomes[k + 1].k \in {"data", "empty"}) =>
              /\ fx.status = "returned"
              /\ fx.calls = k + 1
              /\ Len(fx.outcomes) = k + 1
              /\ fx.value = fx.outcomes[k + 1].data

\* Two rate-limited calls, then rows on the third.
C5_Witness ==
    /\ LiveFetch
    /\ Len(fx.outcomes) = 3
    /\ RaisedRateLimited(fx.outcomes[1])
    /\ RaisedRateLimited(fx.outcomes[2])
    /\ fx.outcomes[3].k = "data"
    /\ fx.status = "returned"
    /\ fx.calls = 3
    /\ fx.value = <<3>>

\* Errors that are neither a rate-limit signal nor a connection, timeout or
\* malformed-response error.
OtherErrors == {"assert_other", "value", "key"}

\* C13: a fetch whose first provider call raises an error of the class
\* 'other' ends after exactly that one call, by raising.
C13_OtherNotRetried ==
    (LiveFetch /\ Len(fx.outcomes) >= 1 /\ fx.outcomes[1].k = "raise"
       /\ fx.outcomes[1].err \in OtherErrors)
      => (fx.calls = 1 /\ fx.status = "raised")

\* Errors that carry a rate-limit signal: HTTP status 429, or a message that
\* holds a rate-limit marker ("429", "Too Many Requests").
RateLimitSignals == {"http_429", "assert_429", "json_tmr", "conn_429"}

\* The index in events of the i-th provider call.
CallIndex(events, i) ==
    LET S == {p \in DOMAIN events : events[p].ev = "call"} IN
    CHOOSE p \in S : Cardinality({q \in S : q <= p}) = i

\* The names of the events between the i-th provider call and the throttle
\* of the next attempt (or the end of the fetch).
AfterCall(f, i) ==
    LET from == CallIndex(f.events, i) + 1
        to == IF i < f.calls THEN CallIndex(f.events, i + 1) - 2 ELSE Len(f.events)
    IN [p \in 1..(to - from + 1) |-> f.events[from + p - 1].ev]

\* C14: a failed attempt whose error carries a rate-limit signal is followed
\* by exactly one cooldown sleep, before the backoff wait and the next
\* attempt; a failed attempt with another error is followed by no cooldown.
C14_CooldownAfterRateLimit ==
    LiveFetch =>
      \A i \in 1..Len(fx.outcomes) :
        fx.outcomes[i].k = "raise" =>
          IF fx.outcomes[i].err \in RateLimitSignals
          THEN AfterCall(fx, i) \in {<<"cooldown">>, <<"cooldown", "backoff">>}
          ELSE AfterCall(fx, i) \in {<<>>, <<"backoff">>}

\* C15: every provider call is preceded in its attempt by exactly one
\* throttle delay, every throttle delay is followed by its provider call, and
\* a fetch in mock mode has neither.
C15_ThrottleBeforeEachCall ==
    fx.status # "idle" =>
      LET calls == {p \in DOMAIN fx.events : fx.events[p].ev = "call"}
          throttles == {p \in DOMAIN fx.events : fx.events[p].ev = "throttle"}
      IN /\ Cardinality(calls) = fx.calls
         /\ Cardinality(throttles) = fx.calls
         /\ \A p \in calls : p - 1 \in throttles
         /\ \A p \in throttles : p + 1 \in calls
         /\ fx.mock => (fx.calls = 0 /\ fx.events = <<>>)
         /\ ~fx.mock => fx.calls = fx.attempt_number

\* A live fetch that made three provider calls, each after its own throttle.
C15_Witness ==
    /\ LiveFetch
    /\ fx.calls = 3
    /\ Cardinality({p \in DOMAIN fx.events : fx.events[p].ev = "throttle"}) = 3
    /\ fx.events[1].ev = "throttle" /\ fx.events[2].ev = "call"

\* C16: an answer without rows ends the fetch on that attempt: the fetcher
\* returns None, raises nothing, and no call follows it.
C16_NoDataIsNotAFailure ==
    LiveFetch =>
      \A i \in 1..Len(fx.outcomes) :
        fx.outcomes[i].k = "empty" =>
          /\ i = Len(fx.outcomes)
          /\ fx.calls = i
          /\ fx.status = "returned"
          /\ fx.value = <<>>
          /\ fx.error = ""

\* The historical fetcher got no rows on its second call, after a refused
\* connection, and returned None.
C16_Witness ==
    /\ LiveFetch
    /\ fx.fetcher = "_get_historical_data"
    /\ Len(fx.outcomes) = 2
    /\ fx.outcomes[1].k = "raise"
    /\ fx.outcomes[2].k = "empty"
    /\ fx.status = "returned"
    /\ fx.value = <<>>

\* The backoff waits of the invocation, in order.
BackoffWaits == SelectSeq(fx.events, LAMBDA x : x.ev = "backoff")

\* C33: the backoff waits of a fetch are non-decreasing, each between 8 and
\* 60 seconds; there is one between two attempts and none after the last.
C33_BackoffBounded ==
    LiveFetch =>
      /\ \A i \in 1..Len(BackoffWaits) :
           /\ BackoffWaits[i].secs >= WaitMin
           /\ BackoffWaits[i].secs <= WaitMax
           /\ i > 1 => BackoffWaits[i - 1].secs <= BackoffWaits[i].secs
      /\ Len(BackoffWaits) <= StopAfterAttempt - 1
      /\ Len(BackoffWaits) =
           IF fx.status = "running" THEN fx.calls ELSE Max(0, fx.calls - 1)
      /\ (fx.status # "running" /\ fx.events # <<>>) =>
           fx.events[Len(fx.events)].ev # "backoff"

\* Five attempts failed: the waits were 8, 8, 12 and 24 seconds.
C33_Witness ==
    /\ LiveFetch
    /\ fx.status = "raised"
    /\ fx.calls = StopAfterAttempt
    /\ [i \in 1..Len(BackoffWaits) |-> BackoffWaits[i].secs] = <<8, 8, 12, 24>>

\* What the provider did on the last call of the invocation.
LastOutcome == fx.outcomes[Len(fx.outcomes)]

\* C34: the classification of a provider's exception raises nothing itself:
\* the error that ends an invocation is the provider's own (or RetryError
\* after the last attempt), and an invocation never ends on a retryable
\* provider error before the last attempt.
C34_ClassificationTotal ==
    (LiveFetch /\ fx.status = "raised") =>
      /\ LastOutcome.k = "raise"
      /\ fx.error \in {LastOutcome.err, "RetryError"}
      /\ RetryIfExceptionType(LastOutcome.err) =>
           (fx.error = "RetryError" /\ fx.calls = StopAfterAttempt)

(***************************************************************************)
(* SpecVal: the calculator's pure methods on drawn inputs                  *)
(***************************************************************************)

\* Longest valuation table drawn.
MaxRows == 2

\* A provider that answers every call the same way.
ConstScript(o) == [i \in 1..StopAfterAttempt |-> o]

\* A provider that raises err on the first n calls and answers o afterwards.
FailThen(n, err, o) ==
    [i \in 1..StopAfterAttempt |-> IF i <= n THEN ProviderRaise(err) ELSE o]

\* The values calculate_momentum_metrics gives a field: a float, NaN or an
\* infinity.
MomentumCells == {Num(5, 0), NaN, Inf(1)}

\* Dicts handed to _validate_momentum_metrics: every required key with a
\* float, NaN or an infinity, and dicts that lack one momentum key.
ValidateInputs ==
    LET full == {[f \in RequiredFields |-> IF f = "ticker" THEN "AAPL" ELSE g[f]] :
                    g \in [MomentumFields -> MomentumCells]}
        lacking == {[f \in RequiredFields \ {m} |->
                        IF f = "ticker" THEN "AAPL" ELSE Num(5, 0)] : m \in MomentumFields}
    IN full \cup lacking

TableAttrs ==
    {"Trailing P/E", "Price/Book (mrq)", "Market Cap (intraday)",
     "Enterprise Value", "Enterprise Value/EBITDA", "EBITDA"}

\* "28.45", "2.85T", "--" and None
TableCells == {NumStr(2845, -2, ""), NumStr(285, -2, "T"), Str("--"), None}

TableRows == {[attr |-> a, cell |-> c] : a \in TableAttrs, c \in TableCells}

Tables == UNION {[1..n -> TableRows] : n \in 0..MaxRows}

\* "0", "-1.5B", "2.85T", "439.26M" and None
RatioCells ==
    {NumStr(0, 0, ""), NumStr(-15, -1, "B"), NumStr(285, -2, "T"),
     NumStr(43926, -2, "M"), None}

\* Tables with an EBITDA row and an Enterprise Value row.
RatioTables ==
    {<<[attr |-> "EBITDA", cell |-> a], [attr |-> "Enterprise Value", cell |-> b]>> :
        a \in RatioCells, b \in RatioCells}

ValuationScripts ==
    {ConstScript(ProviderData(t)) : t \in Tables \cup RatioTables}
      \cup {ConstScript(ProviderEmpty), ConstScript(ProviderRaise("conn")),
            ConstScript(ProviderRaise("key")), ConstScript(ProviderRaise("http_noresp"))}
      \cup {FailThen(2, "http_429", ProviderData(t)) : t \in [1..1 -> TableRows]}

InitVal ==
    /\ fx = IdleFetch
    /\ vx = IdleCall
    /\ table = EmptyTable
    /\ now = 0
    /\ st = IdleStore
    /\ run = IdleRun
    /\ mockrun = IdleMock
    /\ drv = IdleDriver
    /\ pf = IdlePortfolio

\* _validate_momentum_metrics(metrics)
Validate ==
    /\ vx.op = "idle"
    /\ \E metrics \in ValidateInputs :
         vx' = [op |-> "_validate_momentum_metrics", input |-> <<metrics>>,
                output |-> <<_validate_momentum_metrics(metrics)>>, raised |-> ""]
    /\ UNCHANGED <<fx, table, now, st, run, mockrun, drv, pf>>

\* calculate_valuation_metrics(ticker) against a scripted provider; input is
\* the valuation fetch as it ended.
CalcValuation ==
    /\ vx.op = "idle"
    /\ \E script \in ValuationScripts :
         LET fetched == RunFetch(NotFetched, script, <<>>)
             r == calculate_valuation_metrics(fetched)
         IN vx' = [op |-> "calculate_valuation_metrics", input |-> <<fetched>>,
                   output |-> <<r.metrics>>, raised |-> r.raised]
    /\ UNCHANGED <<fx, table, now, st, run, mockrun, drv, pf>>

\* Series lengths around the window: up to MaxExtra bars under and over it.
MaxExtra == 2

SeriesLengths ==
    {0} \cup {Window - d : d \in 1..MaxExtra} \cup {Window + d : d \in 0..MaxExtra}

\* Frames handed to calculate_momentum_metrics: rising or all-zero closes,
\* with or without a NaN as the last close.
MomentumSeries ==
    UNION {{Series(len, lh[1], lh[2], len \div 2, nan) :
               lh \in {<<10, 12>>, <<0, 0>>}, nan \in {0, len}} :
           len \in SeriesLengths}

\* calculate_momentum_metrics(hist_data)
CalcMomentum ==
    /\ vx.op = "idle"
    /\ \E hist_data \in MomentumSeries :
         LET r == calculate_momentum_metrics(hist_data) IN
         vx' = [op |-> "calculate_momentum_metrics", input |-> <<hist_data>>,
                output |-> r.metrics, raised |-> r.raised]
    /\ UNCHANGED <<fx, table, now, st, run, mockrun, drv, pf>>

\* Values handed to _convert_market_cap: None, "", "N/A", texts that are no
\* number ("--", "T", "abcB"), floats (0, 5, -3, 2.85e12, NaN, infinity),
\* "8.71" and "439.26" plain and with each suffix in upper and lower case,
\* "0", and texts with thousands separators ("1,234.5", "1,234M").
CoerceInputs ==
    {None, Str(""), Str("N/A"), Str("--"), Str("T"), Str("abcB"),
     Num(0, 0), Num(5, 0), Num(-3, 0), Num(285, 10), NaN, Inf(1),
     NumStr(0, 0, ""), CommaStr(12345, -1, ""), CommaStr(1234, 0, "M")}
      \cup {NumStr(n, -2, x) : n \in {871, 43926},
                               x \in {"", "K", "M", "B", "T", "k", "m", "b", "t"}}

\* self._convert_market_cap(value_str)
ConvertMarketCap ==
    /\ vx.op = "idle"
    /\ \E value_str \in CoerceInputs :
         vx' = [op |-> "_convert_market_cap", input |-> <<value_str>>,
                output |-> <<_convert_market_cap(value_str)>>,
                raised |-> ConvertRaises(value_str)]
    /\ UNCHANGED <<fx, table, now, st, run, mockrun, drv, pf>>

NextVal == Validate \/ CalcValuation \/ CalcMomentum \/ ConvertMarketCap

SpecVal == InitVal /\ [][NextVal]_vars

\* The valuation table calculate_valuation_metrics worked on, if any.
HasTable == /\ vx.op = "calculate_valuation_metrics"
            /\ vx.input[1].status = "returned"
            /\ vx.input[1].value # <<>>

TableOf == vx.input[1].value[1]

\* C8: calculate_valuation_metrics never raises; when an extraction fails,
\* every field resolved before the failure keeps its value and the fields from
\* the failing one on are null.
C8_NeverRaisesKeepsResolved ==
    vx.op = "calculate_valuation_metrics" =>
      /\ vx.raised = ""
      /\ HasTable =>
           \A i \in 1..Len(Extractions) :
             LET x == Extractions[i]
                 failedBy == \E j \in 1..i : Extract(TableOf, Extractions[j]).raised # ""
             IN IF failedBy THEN vx.output[1][x.field] = None
                ELSE Extract(TableOf, x).found =>
                       vx.output[1][x.field] = Extract(TableOf, x).value

\* C9: every field whose own cell is present and converts is resolved,
\* whatever happens to the other fields.
C9_FieldsIndependent ==
    HasTable =>
      \A i \in 1..Len(Extractions) :
        LET r == Extract(TableOf, Extractions[i]) IN
        (r.found /\ r.raised = "") => vx.output[1][Extractions[i].field] = r.value

\* C12: calculate_momentum_metrics raises ValueError for a series of fewer
\* than 100 bars and returns the five momentum fields for 100 bars or more.
C12_WindowBoundary ==
    vx.op = "calculate_momentum_metrics" =>
      IF vx.input[1].len < Window
      THEN vx.raised = "ValueError" /\ vx.output = <<>>
      ELSE /\ vx.raised = ""
           /\ vx.output # <<>>
           /\ DOMAIN vx.output[1] = MomentumFields

\* A series of exactly 100 bars for which the five fields are numbers.
C12_Witness ==
    /\ vx.op = "calculate_momentum_metrics"
    /\ vx.input[1].len = Window
    /\ vx.raised = ""
    /\ \A f \in MomentumFields : vx.output[1][f].k = "num"

\* The momentum call of the state, when it returned the five fields.
MomentumReturned == vx.op = "calculate_momentum_metrics" /\ vx.raised = ""

\* Two averages that are both numbers and no further apart than a millionth
\* of the second (the arithmetic keeps some seven digits over the closes of
\* a series), or both NaN.
SameAverage(a, b) ==
    IF a.k = "num" /\ b.k = "num"
    THEN LET d == FloatSub(a, b)
         IN FloatLeq(Num(Abs(d.n), d.e), Num(Abs(b.n), b.e - 6))
    ELSE a.k = b.k

\* C23: for a series of at least 100 closes, all numbers, the ema_100 of
\* calculate_momentum_metrics is the last value of the recursion e_0 = c_0,
\* e_t = a * c_t + (1 - a) * e_(t-1), a = 2 / 101, the 100-day EMA of the
\* price plot.
C23_EmaIsStandardRecursion ==
    (MomentumReturned /\ ~HasNaNFrom(vx.input[1], 1)) =>
      SameAverage(vx.output[1].ema_100, EwmMeanUnadjusted(vx.input[1]))

\* The last 100 bars of a series of at least 100 bars, as a series.
LastWindow(s) ==
    LET d == s.len - Window IN
    Series(Window, s.lo, s.hi, Max(0, s.split - d), IF s.nan > d THEN s.nan - d ELSE 0)

\* C24: for a series of at least 100 bars, last_price is the close of the
\* final bar, and ma_100 is the arithmetic mean of the last 100 closes (NaN
\* when one of them is NaN): the closes before them have no influence.
C24_MeanOfLastWindow ==
    MomentumReturned =>
      LET s == vx.input[1]
          d == s.len - Window
          lows == Max(0, Min(s.split, s.len) - d)
      IN /\ vx.output[1].last_price = Close(s, s.len)
         /\ vx.output[1].ma_100 =
              IF s.nan > d /\ s.nan <= s.len THEN NaN
              ELSE AsFloat(Num(s.lo * lows + s.hi * (Window - lows), -2))
         /\ vx.output[1].ma_100 =
              calculate_momentum_metrics(LastWindow(s)).metrics[1].ma_100

\* A series longer than the window whose earlier closes differ from its
\* last close, with a mean that is a number.
C24_Witness ==
    /\ MomentumReturned
    /\ vx.input[1].len > Window
    /\ vx.input[1].lo # vx.input[1].hi
    /\ vx.output[1].ma_100.k = "num"
    /\ vx.output[1].last_price = Num(vx.input[1].hi, 0)

\* The percentage the claim defines: 0 over a zero average, the quotient
\* otherwise.
GuardedPct(last_price, avg) ==
    IF avg.k = "num" /\ avg.n = 0 THEN Num(0, -2) ELSE PctAbove(last_price, avg)

\* C25: pct_above_ma_100 is (last_price - ma_100) / ma_100 * 100, and 0 when
\* ma_100 is zero; likewise pct_above_ema_100 with ema_100.
C25_ZeroAverageGivesZero ==
    MomentumReturned =>
      LET m == vx.output[1] IN
      /\ m.pct_above_ma_100 = GuardedPct(m.last_price, m.ma_100)
      /\ m.pct_above_ema_100 = GuardedPct(m.last_price, m.ema_100)

\* C26: ebitda_ev is ebitda / enterprise_value when ebitda is a number and
\* enterprise_value is a number above zero (0 for an ebitda of 0), and null in
\* every other case.
C26_RatioIffPositiveEV ==
    HasTable =>
      LET m == vx.output[1] IN
      IF /\ m["ebitda"].k = "num"
         /\ m["enterprise_value"].k = "num"
         /\ m["enterprise_value"].n > 0
      THEN m["ebitda_ev"] = Divide(m["ebitda"], m["enterprise_value"])
      ELSE m["ebitda_ev"] = None

\* The rows of a valuation table whose attribute is attr itself.
OwnRows(val, attr) == SelectSeq(val, LAMBDA row : row.attr = attr)

\* C36: ebitda is taken from a row whose attribute is EBITDA itself and
\* enterprise_value from the row "Enterprise Value", whatever the order of
\* the rows: each is null or the converted cell of its own row, never the
\* cell of a ratio row such as "Enterprise Value/EBITDA".
C36_FieldFromOwnRow ==
    HasTable =>
      LET m == vx.output[1] IN
      \A x \in {[field |-> "ebitda", attr |-> "EBITDA"],
                [field |-> "enterprise_value", attr |-> "Enterprise Value"]} :
         \/ m[x.field] = None
         \/ /\ OwnRows(TableOf, x.attr) # <<>>
            /\ m[x.field] = _convert_market_cap(OwnRows(TableOf, x.attr)[1].cell)

\* C27: _convert_market_cap returns None for None, "" and "N/A", and returns
\* a float that is not NaN, zero included, as it is.
C27_NullsAndNumbers ==
    vx.op = "_convert_market_cap" =>
      /\ vx.raised = ""
      /\ vx.input[1] \in {None, Str(""), Str("N/A")} => vx.output[1] = None
      /\ vx.input[1].k \in {"num", "inf"} => vx.output[1] = vx.input[1]

\* The suffix table read without regard to case.
SuffixExponentAnyCase(suffix) ==
    CASE suffix \in {"T", "t"} -> 12
      [] suffix \in {"B", "b"} -> 9
      [] suffix \in {"M", "m"} -> 6
      [] suffix \in {"K", "k"} -> 3
      [] OTHER -> 0

\* C28: a numeric prefix followed by K, M, B or T in upper or lower case gives
\* the prefix times 1e3, 1e6, 1e9, 1e12; a prefix that is no number gives
\* None.
C28_SuffixAnyCase ==
    vx.op = "_convert_market_cap" =>
      /\ (vx.input[1].k = "numstr" /\ vx.input[1].s # "") =>
           vx.output[1] = Num(vx.input[1].n,
                              vx.input[1].e + SuffixExponentAnyCase(vx.input[1].s))
      /\ vx.input[1] \in {Str("T"), Str("abcB")} => vx.output[1] = None

IsString(value) == value.k \in {"str", "numstr", "commastr"}

\* C29: for a string _convert_market_cap returns a float or None and raises
\* nothing; thousands separators are dropped before a plain number is parsed,
\* a text that is no number gives None, and nothing but the result changes.
C29_TotalOnStrings ==
    [][(vx'.op = "_convert_market_cap" /\ vx' # vx /\ IsString(vx'.input[1]))
         => /\ vx'.raised = ""
            /\ vx'.output[1].k \in {"num", "nan", "inf", "none"}
            /\ (vx'.input[1].k = "commastr" /\ vx'.input[1].s = "") =>
                 vx'.output[1] = Num(vx'.input[1].n, vx'.input[1].e)
            /\ vx'.input[1].k = "str" => vx'.output[1] = None
            /\ UNCHANGED <<fx, table, now, st, run, mockrun, drv, pf>>]_vars

\* "1,234.5" came back as 1234.5.
C29_Witness ==
    /\ vx.op = "_convert_market_cap"
    /\ vx.input[1] = CommaStr(12345, -1, "")
    /\ vx.output[1] = Num(12345, -1)
    /\ vx.raised = ""

(***************************************************************************)
(* SpecHistory: _get_historical_data against a provider whose frame is a   *)
(* sequence of bars [t, close] in the order the provider wrote them        *)
(***************************************************************************)

\* Longest frame drawn, and the number of distinct timestamps.
MaxBars == 3

RawBars == {[t |-> t, close |-> c] : t \in 1..MaxBars, c \in {10, 12}}

RawFrames == UNION {[1..n -> RawBars] : n \in 0..MaxBars}

\* si.get_data answering with a frame; a frame without rows is df.empty.
ProviderFrame(rows) == IF rows = <<>> THEN ProviderEmpty ELSE ProviderData(rows)

InitHistory ==
    /\ fx = IdleFetch
    /\ vx = IdleCall
    /\ table = EmptyTable
    /\ now = 0
    /\ st = IdleStore
    /\ run = IdleRun
    /\ mockrun = IdleMock
    /\ drv = IdleDriver
    /\ pf = IdlePortfolio

\* self._get_historical_data(ticker) in live mode, the provider answering with
\* a frame at once or after a refused connection.
GetHistoricalData ==
    /\ fx.status = "idle"
    /\ \E rows \in RawFrames, refused \in 0..1 :
         fx' = RunFetch(FetchStart("_get_historical_data", FALSE),
                        FailThen(refused, "conn", ProviderFrame(rows)), <<>>)
    /\ UNCHANGED <<vx, table, now, st, run, mockrun, drv, pf>>

NextHistory == GetHistoricalData

SpecHistory == InitHistory /\ [][NextHistory]_vars

\* The frame the provider answered with on the last call.
RawRows == fx.outcomes[Len(fx.outcomes)].data[1]

\* C30: a series _get_historical_data returns is strictly ascending by
\* timestamp, and holds for every timestamp of the provider's rows the bar
\* the provider wrote last for it, and no other bar.
C30_SortedNoDuplicates ==
    (fx.status = "returned" /\ fx.value # <<>>) =>
      LET series == fx.value[1] IN
      /\ \A i \in 1..(Len(series) - 1) : series[i].t < series[i + 1].t
      /\ {series[i] : i \in 1..Len(series)} =
           {RawRows[i] : i \in {j \in 1..Len(RawRows) :
                                   \A k \in (j + 1)..Len(RawRows) :
                                     RawRows[k].t # RawRows[j].t}}

(***************************************************************************)
(* SpecStore: callers of the Database API as time passes                   *)
(***************************************************************************)

\* Longest list handed to store_metrics.
MaxList == 2

\* Last tick of the clock.
MaxNow == 1

\* 150 closes, 10 up to bar 50 and 12 after it.
GoodSeries == Series(150, 10, 12, 50, 0)

\* A dict with every column but updated_at.
FullRecord(ticker, p) ==
    [c \in Columns \ {"updated_at"} |-> IF c = "ticker" THEN ticker ELSE Num(p, 0)]

\* The dict get_metrics returns for a ticker with a good series and no
\* valuation data.
PipelineRecord(ticker) ==
    get_metrics(ticker, ConstScript(ProviderData(GoodSeries)),
                ConstScript(ProviderEmpty)).ret[1]

StoreRecords ==
    {FullRecord("AAPL", 1), PipelineRecord("AAPL"), FullRecord("MSFT", 1)}

StoreLists == UNION {[1..n -> StoreRecords] : n \in 0..MaxList}

InitStore ==
    /\ fx = IdleFetch
    /\ vx = IdleCall
    /\ table = EmptyTable
    /\ now = 0
    /\ st = IdleStore
    /\ run = IdleRun
    /\ mockrun = IdleMock
    /\ drv = IdleDriver
    /\ pf = IdlePortfolio

\* db.store_metrics(metrics_list)
StoreMetrics ==
    /\ \E metrics_list \in StoreLists, commit_ok \in BOOLEAN :
         LET r == store_metrics(table, metrics_list, now, commit_ok) IN
         /\ table' = r.table
         /\ st' = [called |-> TRUE, list |-> metrics_list,
                   repeated |-> st.called /\ st.list = metrics_list,
                   commit_ok |-> commit_ok, raised |-> r.raised, at |-> now]
    /\ UNCHANGED <<fx, vx, now, run, mockrun, drv, pf>>

\* Time passes.
Tick ==
    /\ now < MaxNow
    /\ now' = now + 1
    /\ UNCHANGED <<fx, vx, table, st, run, mockrun, drv, pf>>

NextStore == StoreMetrics \/ Tick

SpecStore == InitStore /\ [][NextStore]_vars

\* C6: store_metrics called twice in a row with the same record (the engine
\* accepting the commit) leaves a row for that ticker that holds the record's
\* content and the later call's timestamp.
C6_SameRecordTwice ==
    (st.repeated /\ Len(st.list) = 1 /\ st.commit_ok) =>
      LET r == st.list[1] IN
      /\ r["ticker"] \in DOMAIN table
      /\ \A c \in DOMAIN r \cap Columns : table[r["ticker"]][c] = r[c]
      /\ table[r["ticker"]]["updated_at"] = st.at

\* C7: a store_metrics call in which a record cannot be built (a key that is
\* no column), or whose commit the engine refuses, leaves the table exactly as
\* it was and raises.
C7_AllOrNothing ==
    [][(\/ \E i \in 1..Len(st'.list) : ~(DOMAIN st'.list[i] \subseteq Columns)
        \/ (st'.list # <<>> /\ ~st'.commit_ok))
         => (table' = table /\ st'.raised # "")]_vars

\* A list whose first record is storable and whose second is not, for a
\* ticker that had no row: nothing of it is in the table.
C7_Witness ==
    /\ st.called
    /\ Len(st.list) = 2
    /\ DOMAIN st.list[1] \subseteq Columns
    /\ ~(DOMAIN st.list[2] \subseteq Columns)
    /\ st.raised = "TypeError"
    /\ st.list[1]["ticker"] \notin DOMAIN table

\* The stored (ticker, metric fields) records: the table without updated_at.
Content(tbl) ==
    [t \in DOMAIN tbl |-> [c \in Columns \ {"updated_at"} |-> tbl[t][c]]]

DistinctTickers(metrics_list) ==
    \A i, j \in 1..Len(metrics_list) :
      /\ "ticker" \in DOMAIN metrics_list[i]
      /\ i # j => metrics_list[i]["ticker"] # metrics_list[j]["ticker"]

\* The orders in which n records can be handed over.
Orders(n) ==
    {p \in [1..n -> 1..n] : \A i, j \in 1..n : i # j => p[i] # p[j]}

\* metrics_list in order p, stored by one call for the first k records and
\* another for the rest.
StoreSplit(tbl, metrics_list, p, k, time) ==
    LET ordered == [i \in 1..Len(metrics_list) |-> metrics_list[p[i]]]
        first == store_metrics(tbl, SubSeq(ordered, 1, k), time, TRUE)
        rest == store_metrics(first.table, SubSeq(ordered, k + 1, Len(ordered)),
                              time, TRUE)
    IN [raised |-> first.raised # "" \/ rest.raised # "", table |-> rest.table]

\* C21: when store_metrics accepts a list of records with pairwise distinct
\* tickers, handing the same records over in any other order, in one call or
\* split over two, is accepted too and stores the same (ticker, metric
\* fields) records.
C21_OrderIndependent ==
    [][(now' = now /\ st'.raised = "" /\ DistinctTickers(st'.list))
         => \A p \in Orders(Len(st'.list)), k \in 0..Len(st'.list) :
              LET r == StoreSplit(table, st'.list, p, k, now) IN
              ~r.raised /\ Content(r.table) = Content(table')]_vars

\* Two records of different tickers stored by one call on top of a table that
\* already held a row.
C21_Witness ==
    /\ st.called
    /\ st.raised = ""
    /\ Len(st.list) = 2
    /\ DistinctTickers(st.list)
    /\ {st.list[1]["ticker"], st.list[2]["ticker"]} = DOMAIN table
    /\ st.repeated

(***************************************************************************)
(* SpecRecent: has_recent_metrics on tables written at earlier times       *)
(***************************************************************************)

\* Last tick of the clock of a has_recent_metrics call.
MaxClock == 4

\* The table after store_metrics calls for AAPL at tick a and for MSFT at
\* tick b (-1: no call for that ticker).
WrittenAt(a, b) ==
    LET first == IF a < 0 THEN EmptyTable
                 ELSE store_metrics(EmptyTable, <<FullRecord("AAPL", 1)>>, a, TRUE).table
    IN IF b < 0 THEN first
       ELSE store_metrics(first, <<FullRecord("MSFT", 1)>>, b, TRUE).table

InitRecent ==
    /\ fx = IdleFetch
    /\ vx = IdleCall
    /\ now \in 0..MaxClock
    /\ table \in {WrittenAt(a, b) : a \in -1..now, b \in -1..now}
    /\ st = IdleStore
    /\ run = IdleRun
    /\ mockrun = IdleMock
    /\ drv = IdleDriver
    /\ pf = IdlePortfolio

\* db.has_recent_metrics(ticker, age_limit_days); TSLA has no row.
HasRecentMetrics ==
    /\ \E ticker \in {"AAPL", "MSFT", "TSLA"}, age_limit_days \in 1..2 :
         vx' = [op |-> "has_recent_metrics", input |-> <<ticker, age_limit_days>>,
                output |-> <<has_recent_metrics(table, ticker, age_limit_days, now)>>,
                raised |-> ""]
    /\ UNCHANGED <<fx, table, now, st, run, mockrun, drv, pf>>

NextRecent == HasRecentMetrics

SpecRecent == InitRecent /\ [][NextRecent]_vars

\* The age in ticks of the row of a ticker.
AgeOf(ticker) == now - table[ticker]["updated_at"]

\* C31: has_recent_metrics returns true exactly when the ticker has a row
\* whose updated_at is less than age_limit_days old, false for a ticker
\* without a row, and leaves the table as it was.
C31_RecentIffYoungRow ==
    [][(vx'.op = "has_recent_metrics" /\ vx' # vx)
         => LET ticker == vx'.input[1]
                age_limit_days == vx'.input[2]
            IN /\ vx'.output[1] =
                    (/\ ticker \in DOMAIN table
                     /\ AgeOf(ticker) < age_limit_days * TicksPerDay)
               /\ ticker \notin DOMAIN table => vx'.output[1] = FALSE
               /\ table' = table
               /\ vx'.raised = ""]_vars

\* A row exactly one day old is not recent under a limit of one day, while
\* the other ticker's younger row is.
C31_Witness ==
    /\ vx.op = "has_recent_metrics"
    /\ vx.input = <<"AAPL", 1>>
    /\ "AAPL" \in DOMAIN table /\ AgeOf("AAPL") = TicksPerDay
    /\ vx.output[1] = FALSE
    /\ "MSFT" \in DOMAIN table /\ AgeOf("MSFT") < TicksPerDay

(***************************************************************************)
(* Spec: process_tickers_batch over a scripted provider and the database   *)
(***************************************************************************)

\* Longest ticker list handed to a run.
MaxTickers == 2

Tickers == {"AAPL", "MSFT"}

TickerLists == UNION {[1..n -> Tickers] : n \in 0..MaxTickers}

\* batch_size: one ticker a batch, or the 20 main passes (main.py:165).
BatchSizes == {1, 20}

\* 99 closes: one bar short of the window.
ShortSeries == Series(Window - 1, 10, 12, 50, 0)

\* 150 closes of which the last is NaN.
NaNSeries == Series(150, 10, 12, 50, 150)

\* What the provider does with a ticker's historical requests: a good series
\* at once, a good series after two refused connections, a short series, a
\* series that ends in NaN, nothing, a rate limit on every call, an HTTP
\* error without a response.
HistScripts ==
    {ConstScript(ProviderData(GoodSeries)),
     FailThen(2, "conn", ProviderData(GoodSeries)),
     ConstScript(ProviderData(ShortSeries)),
     ConstScript(ProviderData(NaNSeries)),
     ConstScript(ProviderEmpty),
     ConstScript(ProviderRaise("http_429")),
     ConstScript(ProviderRaise("http_noresp"))}

\* A valuation table with a P/E and a market cap.
GoodTable ==
    <<[attr |-> "Trailing P/E", cell |-> NumStr(2845, -2, "")],
      [attr |-> "Market Cap (intraday)", cell |-> NumStr(285, -2, "T")]>>

\* A valuation table whose cells do not convert: "--" and None.
BadTable ==
    <<[attr |-> "Trailing P/E", cell |-> Str("--")],
      [attr |-> "Price/Book (mrq)", cell |-> None]>>

\* What the provider does with a ticker's valuation requests: a table, a
\* table that does not parse, nothing, a rate limit on every call.
ValScripts ==
    {ConstScript(ProviderData(GoodTable)),
     ConstScript(ProviderData(BadTable)),
     ConstScript(ProviderEmpty),
     ConstScript(ProviderRaise("http_429"))}

\* get_metrics on each ticker and provider behaviour of a run.
GetMetricsRuns ==
    [ticker \in Tickers, hist_script \in HistScripts, val_script \in ValScripts |->
        get_metrics(ticker, hist_script, val_script)]

\* The clock of the run.
RunClock == MaxNow + TicksPerDay

\* Tables the run may find: empty, or with a row of AAPL written one tick
\* ago and a row of MSFT written at tick 0.
InitialTables ==
    {EmptyTable,
     store_metrics(store_metrics(EmptyTable, <<FullRecord("MSFT", 1)>>, 0, TRUE).table,
                   <<FullRecord("AAPL", 1)>>, RunClock - 1, TRUE).table}

Init ==
    /\ fx = IdleFetch
    /\ vx = IdleCall
    /\ table \in InitialTables
    /\ now = RunClock
    /\ st = IdleStore
    /\ run = IdleRun
    /\ mockrun = IdleMock
    /\ drv = IdleDriver
    /\ pf = IdlePortfolio

\* process_tickers_batch(tickers, batch_size) up to the first ticker of
\* get_metrics_batch.
StartBatch ==
    /\ run.pc = "idle"
    /\ \E tickers \in TickerLists, batch_size \in BatchSizes :
         run' = [IdleRun EXCEPT !.pc = "running", !.tickers = tickers,
                                !.batch_size = batch_size]
    /\ UNCHANGED <<fx, vx, table, now, st, mockrun, drv, pf>>

\* The loop of get_metrics_batch is sequential: one get_metrics call at a
\* time.
MaxConcurrency == 1

\* A dispatch that also starts the ticker after the next one.
DispatchTicker_TwoAtOnce ==
    /\ run.pc = "running"
    /\ run.i <= Len(run.tickers)
    /\ run.in_flight = {}
    /\ run' = [run EXCEPT !.in_flight = {run.i, run.i + 1} \cap DOMAIN run.tickers]
    /\ UNCHANGED <<fx, vx, table, now, st, mockrun, drv, pf>>

\* The inner loop of get_metrics_batch calls get_metrics for the next ticker
\* (metrics.py:363); the call is under way until ProcessTicker.
DispatchTicker ==
    /\ run.pc = "running"
    /\ run.i <= Len(run.tickers)
    /\ run.in_flight = {}
    /\ run' = [run EXCEPT !.in_flight = {run.i}]
    /\ UNCHANGED <<fx, vx, table, now, st, mockrun, drv, pf>>

\* A turn of the loop that lets a ticker's fetch failure end the run.
ProcessTicker_AbortsOnFailure ==
    /\ run.pc = "running"
    /\ run.i <= Len(run.tickers)
    /\ run.i \in run.in_flight
    /\ \E hist_script \in HistScripts, val_script \in ValScripts :
         LET ticker == run.tickers[run.i]
             r == GetMetricsRuns[ticker, hist_script, val_script]
             batch_ends == run.i % run.batch_size = 0
         IN run' = [run EXCEPT
                      !.pc = IF r.hist.status = "raised" THEN "raised" ELSE @,
                      !.raised = IF r.hist.status = "raised" THEN r.hist.error ELSE @,
                      !.i = run.i + 1,
                      !.in_flight = @ \ {run.i},
                      !.all_metrics = IF r.ret # <<>> THEN Append(@, r.ret[1]) ELSE @,
                      !.log = Append(@, [ticker |-> ticker, ret |-> r.ret,
                                          hist |-> r.hist,
                                          momentum |-> r.momentum,
                                          val |-> r.val]),
                      !.batch_delays = IF batch_ends /\ run.i < Len(run.tickers)
                                       THEN @ + 1 ELSE @]
    /\ UNCHANGED <<fx, vx, table, now, st, mockrun, drv, pf>>

\* A turn of the loop that starts over with the same ticker when get_metrics
\* gave no record.
ProcessTicker_RepeatsFailedTicker ==
    /\ run.pc = "running"
    /\ run.i <= Len(run.tickers)
    /\ run.i \in run.in_flight
    /\ \E hist_script \in HistScripts, val_script \in ValScripts :
         LET ticker == run.tickers[run.i]
             r == GetMetricsRuns[ticker, hist_script, val_script]
             batch_ends == run.i % run.batch_size = 0
         IN run' = IF r.ret = <<>>
                   THEN [run EXCEPT !.in_flight = @ \ {run.i}]
                   ELSE [run EXCEPT
                           !.i = run.i + 1,
                           !.in_flight = @ \ {run.i},
                           !.all_metrics = Append(@, r.ret[1]),
                           !.log = Append(@, [ticker |-> ticker, ret |-> r.ret,
                                               hist |-> r.hist,
                                               momentum |-> r.momentum,
                                               val |-> r.val]),
                           !.batch_delays = IF batch_ends /\ run.i < Len(run.tickers)
                                            THEN @ + 1 ELSE @]
    /\ UNCHANGED <<fx, vx, table, now, st, mockrun, drv, pf>>

\* The rest of a turn of the inner loop of get_metrics_batch: get_metrics
\* returns for the ticker under way, the record is appended when there is
\* one, and the sleep between batches follows the last ticker of a batch that
\* is not the last batch.
ProcessTicker ==
    /\ run.pc = "running"
    /\ run.i <= Len(run.tickers)
    /\ run.i \in run.in_flight
    /\ \E hist_script \in HistScripts, val_script \in ValScripts :
         LET ticker == run.tickers[run.i]
             r == GetMetricsRuns[ticker, hist_script, val_script]
             batch_ends == run.i % run.batch_size = 0
         IN run' = [run EXCEPT
                      !.i = run.i + 1,
                      !.in_flight = @ \ {run.i},
                      !.all_metrics = IF r.ret # <<>> THEN Append(@, r.ret[1]) ELSE @,
                      !.log = Append(@, [ticker |-> ticker, ret |-> r.ret,
                                          hist |-> r.hist,
                                          momentum |-> r.momentum,
                                          val |-> r.val]),
                      !.batch_delays = IF batch_ends /\ run.i < Len(run.tickers)
                                       THEN @ + 1 ELSE @]
    /\ UNCHANGED <<fx, vx, table, now, st, mockrun, drv, pf>>

\* process_tickers_batch after get_metrics_batch returned: store_metrics when
\* the list is not empty, which stamps the dicts of the list in place, then
\* the tally; an exception is logged and raised.
FinishBatch ==
    /\ run.pc = "running"
    /\ run.i > Len(run.tickers)
    /\ run.in_flight = {}
    /\ \E commit_ok \in BOOLEAN :
         LET r == IF run.all_metrics # <<>>
                  THEN store_metrics(table, run.all_metrics, now, commit_ok)
                  ELSE [raised |-> "", table |-> table, reached |-> 0]
             total == Len(run.tickers)
             successful == Len(run.all_metrics)
         IN /\ table' = r.table
            /\ run' = IF r.raised # ""
                      THEN [run EXCEPT !.pc = "raised", !.raised = r.raised,
                                       !.all_metrics =
                                         StampedList(run.all_metrics, r.reached, now)]
                      ELSE [run EXCEPT !.pc = "done",
                                       !.all_metrics =
                                         StampedList(run.all_metrics, r.reached, now),
                                       !.stored = run.all_metrics # <<>>,
                                       !.tally = <<[total |-> total,
                                                    successful |-> successful,
                                                    failed |-> total - successful]>>]
    /\ UNCHANGED <<fx, vx, now, st, mockrun, drv, pf>>

Next == StartBatch \/ DispatchTicker \/ ProcessTicker \/ FinishBatch

Spec == Init /\ [][Next]_vars

\* A ticker's historical fetch failed on every attempt.
HistAlwaysFails(e) ==
    /\ e.hist.status = "raised"
    /\ \A j \in 1..Len(e.hist.outcomes) : e.hist.outcomes[j].k = "raise"

\* get_metrics found nothing wrong with the ticker: the historical fetch gave
\* a full window and the valuation fetch gave a table.
AllSucceeds(e) ==
    /\ e.hist.status = "returned" /\ e.hist.value # <<>>
    /\ e.hist.value[1].len >= Window
    /\ e.val.status = "returned" /\ e.val.value # <<>>

\* C1: while a run is under way, no provider call has been made for a ticker
\* that has_recent_metrics reports as recently updated (the table does not
\* change before the run's store_metrics).
C1_FreshTickerNotFetched ==
    run.pc = "running" =>
      \A j \in 1..Len(run.log) :
        has_recent_metrics(table, run.log[j].ticker, RECENT_DATA_AGE_LIMIT_DAYS, now)
          => run.log[j].hist.calls = 0 /\ run.log[j].val.calls = 0

\* C3: a run over tickers that each either always fail to fetch or succeed
\* (the database engine accepting the commit) ends with one record per
\* succeeding ticker, none for a failing one, and a tally whose failure count
\* is the number of failing tickers.
C3_BatchTally ==
    (/\ run.pc \in {"done", "raised"}
     /\ run.raised # "OperationalError"
     /\ \A j \in 1..Len(run.log) : HistAlwaysFails(run.log[j]) \/ AllSucceeds(run.log[j]))
      => /\ run.pc = "done"
         /\ run.tally # <<>>
         /\ run.tally[1].failed =
              Cardinality({j \in 1..Len(run.log) : HistAlwaysFails(run.log[j])})
         /\ Len(run.all_metrics) =
              Cardinality({j \in 1..Len(run.log) : AllSucceeds(run.log[j])})
         /\ \A j \in 1..Len(run.log) :
              AllSucceeds(run.log[j]) <=>
                (\E m \in 1..Len(run.all_metrics) :
                    run.all_metrics[m]["ticker"] = run.log[j].ticker)

\* The momentum fields get_metrics computed for a ticker are all finite
\* numbers.
MomentumFinite(e) ==
    /\ e.momentum # <<>>
    /\ \A f \in MomentumFields : e.momentum[1][f].k = "num"

\* The valuation fetch ran out of attempts or returned nothing.
ValuationAbsent(e) ==
    \/ e.val.status = "raised" /\ e.val.calls >= 1
    \/ e.val.status = "returned" /\ e.val.value = <<>>

\* A dict of the list without the key store_metrics adds to it.
Unstamped(metrics) == [c \in DOMAIN metrics \ {"updated_at"} |-> metrics[c]]

\* C10: a ticker whose historical fetch gave at least 100 bars with finite
\* momentum fields has a record even when the valuation fetch failed on every
\* attempt or returned nothing, and every valuation field of it is null.
C10_ValuationOptional ==
    \A j \in 1..Len(run.log) :
      LET e == run.log[j] IN
      (/\ e.hist.status = "returned" /\ e.hist.value # <<>>
       /\ e.hist.value[1].len >= Window
       /\ MomentumFinite(e)
       /\ ValuationAbsent(e))
        => /\ e.ret # <<>>
           /\ e.ret[1]["ticker"] = e.ticker
           /\ \A f \in ValuationFields : e.ret[1][f] = None
           /\ e.ret[1] = Unstamped(run.all_metrics[
                                  Len(SelectSeq(SubSeq(run.log, 1, j),
                                                LAMBDA x : x.ret # <<>>))])

\* A run in which the valuation fetch of a ticker used up its five attempts
\* and the ticker's record is in the list all the same.
C10_Witness ==
    \E j \in 1..Len(run.log) :
      /\ run.log[j].val.status = "raised"
      /\ run.log[j].val.calls = StopAfterAttempt
      /\ run.log[j].hist.status = "returned"
      /\ run.log[j].ret # <<>>
      /\ run.log[j].ret[1]["pe_ratio"] = None

\* The historical fetch of a ticker ended with nothing or with fewer bars
\* than the window.
InsufficientData(e) ==
    /\ e.hist.status = "returned"
    /\ (e.hist.value = <<>> \/ e.hist.value[1].len < Window)

\* C11: for a ticker whose historical fetch returned nothing or fewer than
\* 100 bars, the answer that was too short is the last historical provider
\* call, no valuation call is made, the ticker has no record, and the run
\* goes on to the tickers after it.
C11_InsufficientDataNotRetried ==
    /\ \A j \in 1..Len(run.log) :
         LET e == run.log[j] IN
         InsufficientData(e) =>
           /\ e.hist.calls = Len(e.hist.outcomes)
           /\ e.hist.outcomes[e.hist.calls].k \in {"data", "empty"}
           /\ \A c \in 1..(e.hist.calls - 1) : e.hist.outcomes[c].k = "raise"
           /\ e.val.calls = 0 /\ e.val.status = "running"
           /\ e.ret = <<>>
    /\ Len(run.all_metrics) =
         Cardinality({j \in 1..Len(run.log) : run.log[j].ret # <<>>})
    /\ run.pc \in {"done", "raised"} => Len(run.log) = Len(run.tickers)

\* A run whose first ticker had a series one bar short and whose second
\* ticker got a record.
C11_Witness ==
    /\ Len(run.log) = 2
    /\ InsufficientData(run.log[1])
    /\ run.log[1].hist.value # <<>>
    /\ run.log[1].hist.calls = 1
    /\ run.log[2].ret # <<>>

\* C17: when a run is over (the engine accepting the commit), a ticker that
\* has_recent_metrics reported as recently updated was skipped without a
\* fetch, get_metrics ran at most once for each other ticker, and the tally
\* is there with total = skipped + successful + failed.
C17_TickerStateMachine ==
    (run.pc \in {"done", "raised"} /\ run.raised # "OperationalError" /\ ~run.stored)
      => LET skipped == {j \in DOMAIN run.tickers :
                           has_recent_metrics(table, run.tickers[j],
                                              RECENT_DATA_AGE_LIMIT_DAYS, now)}
         IN /\ Len(run.log) = Len(run.tickers)
            /\ \A j \in skipped : run.log[j].hist.calls = 0 /\ run.log[j].ret = <<>>
            /\ run.tally # <<>>
            /\ run.tally[1].total = Len(run.tickers)
            /\ run.tally[1].total =
                 Cardinality(skipped) + run.tally[1].successful + run.tally[1].failed

\* The exceptions store_metrics raises.
StoreErrors == {"TypeError", "IntegrityError", "OperationalError"}

\* C18: whatever happens to a ticker, the run goes on through every ticker
\* of the list; a run ends by raising only after all tickers were processed,
\* and then with the exception of store_metrics.
C18_TickerErrorsContained ==
    /\ run.pc = "running" => run.raised = ""
    /\ run.pc \in {"done", "raised"} => Len(run.log) = Len(run.tickers)
    /\ run.pc = "raised" => (run.all_metrics # <<>> /\ run.raised \in StoreErrors)
    /\ run.pc = "done" => run.raised = ""

\* A run whose first ticker used up its five historical attempts, whose
\* second got a table that does not parse, and that went on to the end.
C18_Witness ==
    /\ run.pc \in {"done", "raised"}
    /\ Len(run.log) = 2
    /\ run.log[1].hist.status = "raised"
    /\ run.log[1].hist.calls = StopAfterAttempt
    /\ run.log[2].val.status = "returned"
    /\ run.log[2].val.value = <<BadTable>>

\* C19: at most MaxConcurrency get_metrics calls are under way, and a
\* ticker's result is in the log only once its own call is over: its fetches
\* have ended and it is the ticker before the one under way.
C19_BoundedInFlight ==
    /\ Cardinality(run.in_flight) <= MaxConcurrency
    /\ run.in_flight \subseteq DOMAIN run.tickers
    /\ \A j \in 1..Len(run.log) :
         /\ j \notin run.in_flight
         /\ run.log[j].hist.status \in {"returned", "raised"}
         /\ run.log[j].val.calls > 0 => run.log[j].val.status \in {"returned", "raised"}
    /\ Len(run.log) = run.i - 1

\* The second ticker's call is under way and the first ticker's result has
\* been collected.
C19_Witness ==
    /\ run.in_flight = {2}
    /\ Len(run.log) = 1
    /\ Len(run.tickers) >= 2

\* A started run executes its statements one after the other, every provider
\* call returning or raising: each step of the loop that can be taken is
\* taken.  Nothing obliges a run to be started.
SpecLive ==
    /\ Init
    /\ [][Next]_vars
    /\ WF_vars(DispatchTicker)
    /\ WF_vars(ProcessTicker)
    /\ WF_vars(FinishBatch)

\* How a get_metrics call ended: with a record that passes the validator or
\* with None, each fetcher over and done within the attempts of the retry
\* layer.
Concluded(e) ==
    /\ e.hist.status \in {"returned", "raised"}
    /\ e.hist.calls <= StopAfterAttempt
    /\ e.val.calls <= StopAfterAttempt
    /\ e.val.calls = 0 \/ e.val.status \in {"returned", "raised"}
    /\ e.ret = <<>> \/ _validate_momentum_metrics(e.ret[1])

\* C22: every get_metrics call of a run ends with a record or with None after
\* at most 5 historical and at most 5 valuation provider calls, and every
\* started run ends (done, or raised by store_metrics).
C22_Terminates ==
    /\ [](\A j \in 1..Len(run.log) : Concluded(run.log[j]))
    /\ (run.pc = "running") ~> (run.pc \in {"done", "raised"})

\* A run that ended although a ticker's historical fetch used all five attempts
\* and another ticker's valuation fetch did too.
C22_Witness ==
    /\ run.pc \in {"done", "raised"}
    /\ \E j \in 1..Len(run.log) :
         run.log[j].hist.status = "raised" /\ run.log[j].hist.calls = StopAfterAttempt
    /\ \E j \in 1..Len(run.log) :
         run.log[j].val.status = "raised" /\ run.log[j].val.calls = StopAfterAttempt

\* C32: every record get_metrics returns has only keys that are StockMetrics
\* columns, and a run in which a ticker succeeded (the engine accepting the
\* commit) ends with the records in the table, not with an exception.
C32_RecordsAreStorable ==
    /\ \A j \in 1..Len(run.all_metrics) : DOMAIN run.all_metrics[j] \subseteq Columns
    /\ (/\ run.pc \in {"done", "raised"}
        /\ run.all_metrics # <<>>
        /\ run.raised # "OperationalError")
         => /\ run.pc = "done"
            /\ \A j \in 1..Len(run.all_metrics) :
                 run.all_metrics[j]["ticker"] \in DOMAIN table

(***************************************************************************)
(* SpecDiscard: process_tickers_batch over a provider whose closes give    *)
(* momentum values that are no numbers                                     *)
(***************************************************************************)

\* 150 closes, -1 up to bar 100 and 1 after it: the mean of the last 100 is
\* 0 and the last close is not, so that pct_above_ma_100 is an infinity.
ZeroMeanSeries == Series(150, -1, 1, 100, 0)

\* 150 closes of 0: both percentages are 0 / 0, NaN.
ZeroSeries == Series(150, 0, 0, 50, 0)

\* What the provider does with a ticker's historical requests: a good
\* series, a series that ends in NaN, one whose window has the mean 0, one of
\* zeros only.
DiscardHistScripts ==
    {ConstScript(ProviderData(GoodSeries)),
     ConstScript(ProviderData(NaNSeries)),
     ConstScript(ProviderData(ZeroMeanSeries)),
     ConstScript(ProviderData(ZeroSeries))}

\* get_metrics on each ticker and provider behaviour of a run.
DiscardRuns ==
    [ticker \in Tickers, hist_script \in DiscardHistScripts, val_script \in ValScripts |->
        get_metrics(ticker, hist_script, val_script)]

\* A turn of the inner loop of get_metrics_batch, as ProcessTicker, against
\* the provider of DiscardHistScripts.
ProcessTickerOfAnyCloses ==
    /\ run.pc = "running"
    /\ run.i <= Len(run.tickers)
    /\ run.i \in run.in_flight
    /\ \E hist_script \in DiscardHistScripts, val_script \in ValScripts :
         LET ticker == run.tickers[run.i]
             r == DiscardRuns[ticker, hist_script, val_script]
             batch_ends == run.i % run.batch_size = 0
         IN run' = [run EXCEPT
                      !.i = run.i + 1,
                      !.in_flight = @ \ {run.i},
                      !.all_metrics = IF r.ret # <<>> THEN Append(@, r.ret[1]) ELSE @,
                      !.log = Append(@, [ticker |-> ticker, ret |-> r.ret,
                                          hist |-> r.hist,
                                          momentum |-> r.momentum,
                                          val |-> r.val]),
                      !.batch_delays = IF batch_ends /\ run.i < Len(run.tickers)
                                       THEN @ + 1 ELSE @]
    /\ UNCHANGED <<fx, vx, table, now, st, mockrun, drv, pf>>

NextDiscard ==
    StartBatch \/ DispatchTicker \/ ProcessTickerOfAnyCloses \/ FinishBatch

SpecDiscard == Init /\ [][NextDiscard]_vars

\* One of the required momentum fields of a dict is None, NaN or an infinity.
HasInvalidMomentum(metrics) ==
    \E f \in MomentumFields : metrics[f].k \in {"none", "nan", "inf"}

\* The required fields of the dict get_metrics combined for entry e of the log.
RequiredOf(e) ==
    [f \in RequiredFields |-> IF f = "ticker" THEN e.ticker ELSE e.momentum[1][f]]

\* C2: a record with a required momentum field that is None, NaN or an
\* infinity is rejected by _validate_momentum_metrics and get_metrics returns
\* None for its ticker; no such record is in the list get_metrics_batch
\* builds, which is the list handed to store_metrics, nor in a row of the
\* table.
C2_RejectsNullNanInf ==
    /\ \A j \in DOMAIN run.log :
         (/\ run.log[j].momentum # <<>>
          /\ HasInvalidMomentum(run.log[j].momentum[1]))
           => /\ ~_validate_momentum_metrics(RequiredOf(run.log[j]))
              /\ run.log[j].ret = <<>>
    /\ \A i \in DOMAIN run.all_metrics : ~HasInvalidMomentum(run.all_metrics[i])
    /\ \A t \in DOMAIN table : ~HasInvalidMomentum(table[t])

\* A run of two tickers is over: the closes of one gave an infinite
\* percentage, those of the other a NaN last price, neither has a record,
\* and nothing was stored.
C2_Witness ==
    /\ run.pc = "done"
    /\ Len(run.log) = 2
    /\ run.log[1].momentum # <<>>
    /\ run.log[1].momentum[1]["pct_above_ma_100"].k = "inf"
    /\ run.log[1].ret = <<>>
    /\ run.log[2].momentum # <<>>
    /\ run.log[2].momentum[1]["last_price"].k = "nan"
    /\ run.log[2].ret = <<>>
    /\ run.all_metrics = <<>>
    /\ ~run.stored

(***************************************************************************)
(* SpecMock: the get_metrics calls of a calculator in mock mode, one after *)
(* the other as the loop of get_metrics_batch makes them, step by step on  *)
(* the process-wide numpy generator                                        *)
(***************************************************************************)

\* get_metrics calls of the process.
MaxCalls == 3

\* Two tickers of the mock dictionaries and one that is in neither.
MockTickers == {"AAPL", "MSFT", "ZZZZ"}

\* PYTHONHASHSEED of the process.
HashSalts == {0, 1}

\* get_metrics of a calculator in mock mode, from the draw on: the frame of
\* 150 bars built with the generator in state gen, the momentum metrics, the
\* mock valuation table, the combined record and its validation.
get_metrics_mock(ticker, gen) ==
    LET hist == RunFetch(FetchStart("_get_historical_data", TRUE),
                         ConstScript(ProviderEmpty), MockPrices(ticker, gen))
        momentum == calculate_momentum_metrics(hist.value[1])
        val == RunFetch(FetchStart("_get_valuation_stats", TRUE),
                        ConstScript(ProviderEmpty), MockValuation(ticker))
        valuation == calculate_valuation_metrics(val)
        metrics == Combine(ticker, momentum.metrics[1], valuation.metrics)
    IN IF hist.value[1].len < Window \/ momentum.raised # "" THEN <<>>
       ELSE IF ~_validate_momentum_metrics(metrics) THEN <<>>
       ELSE <<metrics>>

\* A process in mock mode that has called nothing yet.
InitMock ==
    /\ fx = IdleFetch
    /\ vx = IdleCall
    /\ table = EmptyTable
    /\ now = 0
    /\ st = IdleStore
    /\ run = IdleRun
    /\ \E salt \in HashSalts :
         mockrun = [np_random |-> InitialGenerator,
                    calls |-> <<>>,
                    hash |-> [t \in MockTickers |-> HashMod32(salt, t)]]
    /\ drv = IdleDriver
    /\ pf = IdlePortfolio

\* The call under way, if any: the last of the calls.
CallUnderWay ==
    /\ mockrun.calls # <<>>
    /\ mockrun.calls[Len(mockrun.calls)].pc # "done"

\* get_metrics(ticker) is called, the call before it having returned, and
\* reaches np.random.seed.
CallGetMetrics ==
    /\ ~CallUnderWay
    /\ Len(mockrun.calls) < MaxCalls
    /\ \E ticker \in MockTickers :
         mockrun' = [mockrun EXCEPT !.calls =
                        Append(@, [pc |-> "seed", ticker |-> ticker, ret |-> <<>>])]
    /\ UNCHANGED <<fx, vx, table, now, st, run, drv, pf>>

\* np.random.seed(hash(ticker) % 2**32)
SeedStep ==
    /\ CallUnderWay
    /\ LET c == Len(mockrun.calls) IN
       /\ mockrun.calls[c].pc = "seed"
       /\ mockrun' = [mockrun EXCEPT
                         !.np_random = SeedGenerator(TickerSeed(mockrun.calls[c].ticker)),
                         !.calls[c].pc = "draw"]
    /\ UNCHANGED <<fx, vx, table, now, st, run, drv, pf>>

\* np.random.normal(0.001, 0.02, 150) and the rest of get_metrics, which
\* touches the generator no more.
DrawStep ==
    /\ CallUnderWay
    /\ LET c == Len(mockrun.calls) IN
       /\ mockrun.calls[c].pc = "draw"
       /\ mockrun' = [mockrun EXCEPT
                         !.np_random.pos = @ + NormalPeriods,
                         !.calls[c].pc = "done",
                         !.calls[c].ret =
                            get_metrics_mock(mockrun.calls[c].ticker,
                                             mockrun.np_random)]
    /\ UNCHANGED <<fx, vx, table, now, st, run, drv, pf>>

NextMock == CallGetMetrics \/ SeedStep \/ DrawStep

SpecMock == InitMock /\ [][NextMock]_vars

\* The record get_metrics gives for a ticker in the process at hand when it
\* is the only call.
RecordAlone(ticker) == get_metrics_mock(ticker, SeedGenerator(TickerSeed(ticker)))

\* C20: a get_metrics call leaves the process-wide generator as it found it,
\* and the record of a ticker is the one the ticker gets when processed
\* alone, whatever other tickers are processed with it.
C20_NoSharedState ==
    /\ mockrun.np_random = InitialGenerator
    /\ \A c \in DOMAIN mockrun.calls :
         mockrun.calls[c].pc = "done" =>
           mockrun.calls[c].ret = RecordAlone(mockrun.calls[c].ticker)

(***************************************************************************)
(* SpecDrivers: the per-ticker drivers                                     *)
(*   src/src/main.py          process_tickers_individual                   *)
(*   src/src/test_tickers.py  test_tickers                                 *)
(*   src/test_yfinance.py     test_batch_processing, test_single_ticker    *)
(***************************************************************************)

Drivers == {"process_tickers_individual", "test_tickers", "test_batch_processing"}

\* stock.info without the keys test_single_ticker reads, and with them.
NoInfo == [key \in {} |-> None]

FullInfo ==
    [key \in {"trailingPE", "marketCap", "dividendYield", "beta"} |->
        CASE key = "trailingPE" -> Num(2845, -2)
          [] key = "marketCap" -> Num(285, 10)
          [] key = "dividendYield" -> Num(5, -3)
          [] OTHER -> Num(12, -1)]

\* The rows of a history: Close and Volume of two days.
YfBars ==
    << [Close |-> Num(149, 0), Volume |-> Num(41000000, 0)],
       [Close |-> Num(150, 0), Volume |-> Num(52000000, 0)] >>

\* What yfinance does with a ticker in test_single_ticker: an exception, or
\* a history (empty or with rows) and the info dictionary.
YfOutcomes ==
    {[k |-> "raise", hist |-> <<>>, info |-> NoInfo]}
      \cup {[k |-> "history", hist |-> hist, info |-> info] :
              hist \in {<<>>, YfBars}, info \in {NoInfo, FullInfo}}

\* info.get(key, None)
InfoGet(info, key) == IF key \in DOMAIN info THEN info[key] ELSE None

\* The dictionary test_single_ticker builds from a history with rows and the
\* info dictionary.
YfRecord(ticker, hist, info) ==
    [c \in {"ticker", "last_price", "pe_ratio", "market_cap", "dividend_yield",
            "beta", "volume", "timestamp"} |->
        CASE c = "ticker" -> Str(ticker)
          [] c = "last_price" -> hist[Len(hist)].Close
          [] c = "pe_ratio" -> InfoGet(info, "trailingPE")
          [] c = "market_cap" -> InfoGet(info, "marketCap")
          [] c = "dividend_yield" -> InfoGet(info, "dividendYield")
          [] c = "beta" -> InfoGet(info, "beta")
          [] c = "volume" -> hist[Len(hist)].Volume
          [] OTHER -> Str("isoformat")]

\* test_single_ticker(ticker): it returns early on an empty history, stores
\* the dictionary otherwise, and logs every exception instead of raising it.
\* obtained: a dictionary was built; committed: store_metrics returned.
test_single_ticker(tbl, ticker, yf, time, commit_ok) ==
    IF yf.k = "raise"
    THEN [raised |-> "", table |-> tbl, obtained |-> FALSE, committed |-> FALSE]
    ELSE IF yf.hist = <<>>
    THEN [raised |-> "", table |-> tbl, obtained |-> FALSE, committed |-> FALSE]
    ELSE LET r == store_metrics(tbl, <<YfRecord(ticker, yf.hist, yf.info)>>, time,
                                commit_ok)
         IN [raised |-> "", table |-> r.table, obtained |-> TRUE,
             committed |-> r.raised = ""]

\* The body of the loop of process_tickers_individual and of test_tickers for
\* one ticker, given what get_metrics returned: which counter it increments.
DriveOne(tbl, ret, time, commit_ok) ==
    IF ret = <<>>
    THEN [counted |-> "failed", table |-> tbl, obtained |-> FALSE,
          committed |-> FALSE]
    ELSE LET r == store_metrics(tbl, <<ret[1]>>, time, commit_ok)
         IN [counted |-> IF r.raised = "" THEN "successful" ELSE "failed",
             table |-> r.table, obtained |-> TRUE, committed |-> r.raised = ""]

\* The body of the inner loop of test_batch_processing for one ticker.
DriveOneYf(tbl, ticker, yf, time, commit_ok) ==
    LET r == test_single_ticker(tbl, ticker, yf, time, commit_ok)
    IN [counted |-> IF r.raised = "" THEN "successful" ELSE "failed",
        table |-> r.table, obtained |-> r.obtained, committed |-> r.committed]

InitDrivers ==
    /\ fx = IdleFetch
    /\ vx = IdleCall
    /\ table \in InitialTables
    /\ now = RunClock
    /\ st = IdleStore
    /\ run = IdleRun
    /\ mockrun = IdleMock
    /\ drv = IdleDriver
    /\ pf = IdlePortfolio

\* A driver is called with a list of tickers.
StartDriver ==
    /\ drv.pc = "idle"
    /\ \E driver \in Drivers, tickers \in TickerLists :
         drv' = [IdleDriver EXCEPT !.pc = "running", !.driver = driver,
                                   !.tickers = tickers]
    /\ UNCHANGED <<fx, vx, table, now, st, run, mockrun, pf>>

\* The driver's counters after a turn of its loop.
Counted(d, ticker, r) ==
    [d EXCEPT !.i = @ + 1,
              !.successful = IF r.counted = "successful" THEN @ + 1 ELSE @,
              !.failed = IF r.counted = "failed" THEN @ + 1 ELSE @,
              !.tally = Append(@, [ticker |-> ticker, counted |-> r.counted,
                                   obtained |-> r.obtained,
                                   committed |-> r.committed])]

\* A turn of the loop of process_tickers_individual or of test_tickers:
\* get_metrics, then store_metrics of the one record.
DriveTicker ==
    /\ drv.pc = "running"
    /\ drv.driver \in {"process_tickers_individual", "test_tickers"}
    /\ drv.i <= Len(drv.tickers)
    /\ \E hist_script \in HistScripts, val_script \in ValScripts,
          commit_ok \in BOOLEAN :
         LET ticker == drv.tickers[drv.i]
             ret == GetMetricsRuns[ticker, hist_script, val_script].ret
             r == DriveOne(table, ret, now, commit_ok)
         IN /\ table' = r.table
            /\ drv' = Counted(drv, ticker, r)
    /\ UNCHANGED <<fx, vx, now, st, run, mockrun, pf>>

\* A turn of the inner loop of test_batch_processing.
DriveTickerYf ==
    /\ drv.pc = "running"
    /\ drv.driver = "test_batch_processing"
    /\ drv.i <= Len(drv.tickers)
    /\ \E yf \in YfOutcomes, commit_ok \in BOOLEAN :
         LET ticker == drv.tickers[drv.i]
             r == DriveOneYf(table, ticker, yf, now, commit_ok)
         IN /\ table' = r.table
            /\ drv' = Counted(drv, ticker, r)
    /\ UNCHANGED <<fx, vx, now, st, run, mockrun, pf>>

\* The loop is over and the driver logs its counters.
FinishDriver ==
    /\ drv.pc = "running"
    /\ drv.i > Len(drv.tickers)
    /\ drv' = [drv EXCEPT !.pc = "done"]
    /\ UNCHANGED <<fx, vx, table, now, st, run, mockrun, pf>>

NextDrivers == StartDriver \/ DriveTicker \/ DriveTickerYf \/ FinishDriver

SpecDrivers == InitDrivers /\ [][NextDrivers]_vars

\* C35: at the end of a per-ticker driver every input ticker was counted
\* under exactly one of successful and failed, so that the two add up to the
\* number of tickers, and a ticker was counted successful exactly when its
\* metrics were obtained and its store committed.
C35_CountedByOutcome ==
    drv.pc = "done" =>
      /\ Len(drv.tally) = Len(drv.tickers)
      /\ drv.successful + drv.failed = Len(drv.tickers)
      /\ \A i \in DOMAIN drv.tally :
           /\ drv.tally[i].ticker = drv.tickers[i]
           /\ drv.tally[i].counted \in {"successful", "failed"}
           /\ (drv.tally[i].counted = "successful")
                <=> (drv.tally[i].obtained /\ drv.tally[i].committed)

\* The same for the two drivers that call get_metrics.
C35_GetMetricsDrivers ==
    drv.driver \in {"process_tickers_individual", "test_tickers"}
      => C35_CountedByOutcome

(***************************************************************************)
(* SpecPortfolio: concurrent add_portfolio_ticker and                      *)
(* delete_portfolio_ticker calls, each in its own session                  *)
(***************************************************************************)

\* Threads that call the database at the same time.
MaxCallers == 2

Callers == 1..MaxCallers

PortfolioOps == {"add_portfolio_ticker", "delete_portfolio_ticker"}

\* A caller that is in no call.
IdleCaller ==
    [pc |-> "idle", op |-> "", ticker |-> "", existing |-> FALSE, alone |-> TRUE,
     raised |-> ""]

\* A call is under way: between its query and its return.
Active(call) == call.pc \in {"query", "commit"}

InitPortfolio ==
    /\ fx = IdleFetch
    /\ vx = IdleCall
    /\ table = EmptyTable
    /\ now = 0
    /\ st = IdleStore
    /\ run = IdleRun
    /\ mockrun = IdleMock
    /\ drv = IdleDriver
    /\ pf = [IdlePortfolio EXCEPT !.calls = [c \in Callers |-> IdleCaller]]

\* A thread calls add_portfolio_ticker or delete_portfolio_ticker and opens
\* its session.  alone: no other call is under way during this one.
BeginCall ==
    /\ \E c \in Callers, op \in PortfolioOps, ticker \in Tickers :
         /\ ~Active(pf.calls[c])
         /\ pf' = [pf EXCEPT !.calls =
                     [d \in Callers |->
                        IF d = c
                        THEN [IdleCaller EXCEPT
                                !.pc = "query", !.op = op, !.ticker = ticker,
                                !.alone = \A o \in Callers \ {c} : ~Active(pf.calls[o])]
                        ELSE IF Active(pf.calls[d])
                        THEN [pf.calls[d] EXCEPT !.alone = FALSE]
                        ELSE pf.calls[d]]]
    /\ UNCHANGED <<fx, vx, table, now, st, run, mockrun, drv>>

\* The existence query of the call; a call with nothing to write returns.
QueryStep ==
    /\ \E c \in Callers :
         LET call == pf.calls[c]
             existing == PortfolioQuery(pf.rows, call.ticker)
             writes == IF call.op = "add_portfolio_ticker" THEN ~existing ELSE existing
         IN /\ call.pc = "query"
            /\ pf' = [pf EXCEPT !.calls[c] =
                        [call EXCEPT !.existing = existing,
                                     !.pc = IF writes THEN "commit" ELSE "done"]]
    /\ UNCHANGED <<fx, vx, table, now, st, run, mockrun, drv>>

\* The write and the commit of the call, on the table as it is by then.
CommitStep ==
    /\ \E c \in Callers, commit_ok \in BOOLEAN :
         LET call == pf.calls[c]
             r == IF call.op = "add_portfolio_ticker"
                  THEN AddCommit(pf.rows, call.ticker, commit_ok)
                  ELSE DeleteCommit(pf.rows, call.ticker, commit_ok)
         IN /\ call.pc = "commit"
            /\ pf' = [pf EXCEPT !.rows = r.rows,
                                !.calls[c] = [call EXCEPT !.pc = "done",
                                                          !.raised = r.raised]]
    /\ UNCHANGED <<fx, vx, table, now, st, run, mockrun, drv>>

NextPortfolio == BeginCall \/ QueryStep \/ CommitStep

SpecPortfolio == InitPortfolio /\ [][NextPortfolio]_vars

\* No ticker is in two rows.
EachTickerOnce(rows) ==
    \A i, j \in DOMAIN rows : rows[i] = rows[j] => i = j

\* A call that ran with no other call under way returns in this step.
ReturnsAlone(c) ==
    /\ pf.calls[c].pc = "query"
    /\ pf'.calls[c].pc # "query"
    /\ pf'.calls[c].alone

\* C38: however add_portfolio_ticker and delete_portfolio_ticker calls
\* interleave, the portfolio holds each ticker at most once; and a call that
\* ran with no other call under way returns without raising and leaves the
\* portfolio as it was when it adds a ticker that is present or deletes one
\* that is absent.
C38_EachTickerAtMostOnce ==
    /\ []EachTickerOnce(pf.rows)
    /\ [][\A c \in DOMAIN pf.calls :
            LET call == pf.calls[c]
                present == call.ticker \in RowTickers(pf.rows)
            IN (ReturnsAlone(c) /\ ((call.op = "add_portfolio_ticker") <=> present))
                 => /\ pf'.calls[c].pc = "done"
                    /\ pf'.calls[c].raised = ""
                    /\ pf'.rows = pf.rows]_vars

\* Two adds of one ticker both passed the existence check; the second commit
\* was refused and the ticker is in the portfolio once.  The other caller
\* then added a present ticker on its own.
C38_Witness ==
    /\ \A c \in Callers : pf.calls[c].pc = "done"
                          /\ pf.calls[c].op = "add_portfolio_ticker"
                          /\ pf.calls[c].ticker = "AAPL"
    /\ ~pf.calls[1].existing /\ ~pf.calls[1].alone
    /\ pf.calls[1].raised = "IntegrityError"
    /\ pf.calls[2].existing /\ pf.calls[2].alone
    /\ pf.rows = <<"AAPL">>

(***************************************************************************)
(* SpecWeb: the add_stock and delete_stock routes (web_app/app.py)         *)
(***************************************************************************)

\* The ticker field of the form posted to add_stock.
FormTickers == {"AAPL", "aapl", " msft ", "MSFT", ""}

\* request.form.get('ticker', '').upper().strip()
UpperStrip(text) ==
    CASE text \in {"AAPL", "aapl"} -> "AAPL"
      [] text \in {"MSFT", " msft "} -> "MSFT"
      [] OTHER -> ""

\* The ticker in the URL of delete_stock, passed on as it is.
UrlTickers == {"AAPL", "MSFT", "aapl"}

\* What a request leaves: the portfolio rows, the metrics table, the category
\* of the message flashed, whether get_metrics was called, and how the store
\* that followed ended ("" when there was none).
Response(rows, tbl, ticker, flash, fetched, stored) ==
    [rows |-> rows, table |-> tbl, ticker |-> ticker, flash |-> flash,
     fetched |-> fetched, stored |-> stored]

\* The source_page field of the form.
SourcePages == {"portfolio", "research"}

\* A handler thread that serves no request.
IdleRequest ==
    [pc |-> "idle", route |-> "", ticker |-> "", source_page |-> "",
     fetched |-> FALSE, stored |-> ""]

\* add_stock entered with a form: ticker and source_page are read (app.py:
\* 254-255).
AddStockRequest(form, source_page) ==
    [IdleRequest EXCEPT !.pc = "start", !.route = "add_stock",
                        !.ticker = UpperStrip(form), !.source_page = source_page]

\* delete_stock entered with the ticker of the URL.
DeleteStockRequest(ticker) ==
    [IdleRequest EXCEPT !.pc = "query", !.route = "delete_stock",
                        !.ticker = ticker, !.source_page = "portfolio"]

\* A step that leaves the request at pc, and a step that flashes a message
\* of a category and ends the request.
Goto(c, rows, tbl, pc) ==
    [call |-> [c EXCEPT !.pc = pc], rows |-> rows, table |-> tbl, flash |-> ""]

Flash(c, rows, tbl, category) ==
    [call |-> [c EXCEPT !.pc = "done"], rows |-> rows, table |-> tbl,
     flash |-> category]

\* A request after its fetch: get_metrics was called and stored says how the
\* store ended.
Fetched(c, stored) == [c EXCEPT !.fetched = TRUE, !.stored = stored]

\* An add_stock that goes on to add the ticker when the fetch gave no metrics
\* or the store raised.
add_stock_step_AddsWithoutRecord(c, rows, tbl, ret, time, store_ok, add_ok) ==
    CASE c.pc = "start" ->
           IF c.ticker = "" THEN Flash(c, rows, tbl, "warning")
           ELSE Goto(c, rows, tbl, "check")
      [] c.pc = "check" ->
           IF c.ticker \in RowTickers(rows) THEN Flash(c, rows, tbl, "info")
           ELSE Goto(c, rows, tbl, "metrics")
      [] c.pc = "metrics" ->
           IF c.ticker \in DOMAIN tbl THEN Goto(c, rows, tbl, "query")
           ELSE Goto(c, rows, tbl, "fetch")
      [] c.pc = "fetch" ->
           IF ret = <<>> THEN Goto(Fetched(c, "no metrics"), rows, tbl, "query")
           ELSE LET s == store_metrics(tbl, <<ret[1]>>, time, store_ok)
                IN Goto(Fetched(c, IF s.raised # "" THEN s.raised ELSE "committed"),
                        rows, s.table, "query")
      [] c.pc = "query" ->
           IF PortfolioQuery(rows, c.ticker) THEN Flash(c, rows, tbl, "success")
           ELSE Goto(c, rows, tbl, "commit")
      [] c.pc = "commit" ->
           LET a == AddCommit(rows, c.ticker, add_ok)
           IN Flash(c, a.rows, tbl, IF a.raised # "" THEN "error" ELSE "success")
      [] OTHER -> Goto(c, rows, tbl, c.pc)

\* add_stock from one access to the database to the next, each in a session
\* of its own: the form (app.py:254-259), db.get_portfolio_tickers (262),
\* db.get_latest_metrics (266), get_metrics and db.store_metrics (268-273;
\* get_metrics touches neither table), the query of db.add_portfolio_ticker
\* (database.py:121) and its commit (123-124) with the message of app.py:276.
\* An exception is flashed as an error (app.py:278-280).  ret is what
\* get_metrics returns if it is called.
add_stock_step(c, rows, tbl, ret, time, store_ok, add_ok) ==
    CASE c.pc = "start" ->
           IF c.ticker = "" THEN Flash(c, rows, tbl, "warning")
           ELSE Goto(c, rows, tbl, "check")
      [] c.pc = "check" ->
           IF c.ticker \in RowTickers(rows) THEN Flash(c, rows, tbl, "info")
           ELSE Goto(c, rows, tbl, "metrics")
      [] c.pc = "metrics" ->
           IF c.ticker \in DOMAIN tbl THEN Goto(c, rows, tbl, "query")
           ELSE Goto(c, rows, tbl, "fetch")
      [] c.pc = "fetch" ->
           IF ret = <<>> THEN Flash(Fetched(c, "no metrics"), rows, tbl, "error")
           ELSE LET s == store_metrics(tbl, <<ret[1]>>, time, store_ok)
                IN IF s.raised # ""
                   THEN Flash(Fetched(c, s.raised), rows, tbl, "error")
                   ELSE Goto(Fetched(c, "committed"), rows, s.table, "query")
      [] c.pc = "query" ->
           IF PortfolioQuery(rows, c.ticker) THEN Flash(c, rows, tbl, "success")
           ELSE Goto(c, rows, tbl, "commit")
      [] c.pc = "commit" ->
           LET a == AddCommit(rows, c.ticker, add_ok)
           IN Flash(c, a.rows, tbl, IF a.raised # "" THEN "error" ELSE "success")
      [] OTHER -> Goto(c, rows, tbl, c.pc)

\* delete_stock from one access to the database to the next: the query of
\* db.delete_portfolio_ticker (database.py:139) and its commit (141-142).
delete_stock_step(c, rows, tbl, delete_ok) ==
    CASE c.pc = "query" ->
           IF PortfolioQuery(rows, c.ticker) THEN Goto(c, rows, tbl, "commit")
           ELSE Flash(c, rows, tbl, "success")
      [] c.pc = "commit" ->
           LET d == DeleteCommit(rows, c.ticker, delete_ok)
           IN Flash(c, d.rows, tbl, IF d.raised # "" THEN "error" ELSE "success")
      [] OTHER -> Goto(c, rows, tbl, c.pc)

\* A request served to its end with no other request in between.
RECURSIVE RunAlone(_, _, _, _, _, _, _)
RunAlone(c, rows, tbl, ret, time, store_ok, commit_ok) ==
    LET r == IF c.route = "add_stock"
             THEN add_stock_step(c, rows, tbl, ret, time, store_ok, commit_ok)
             ELSE delete_stock_step(c, rows, tbl, commit_ok)
    IN IF r.call.pc = "done"
       THEN Response(r.rows, r.table, c.ticker, r.flash, r.call.fetched,
                     r.call.stored)
       ELSE RunAlone(r.call, r.rows, r.table, ret, time, store_ok, commit_ok)

\* add_stock(form) with no other request in between.
add_stock(rows, tbl, form, ret, time, store_ok, add_ok) ==
    RunAlone(AddStockRequest(form, "portfolio"), rows, tbl, ret, time, store_ok,
             add_ok)

\* delete_stock(ticker) with no other request in between.
delete_stock(rows, tbl, ticker, delete_ok) ==
    RunAlone(DeleteStockRequest(ticker), rows, tbl, <<>>, 0, TRUE, delete_ok)

\* Metrics tables the web application may start on: empty, a row of AAPL, a
\* row of MSFT, or both.
WebTables == {EmptyTable, WrittenAt(0, -1), WrittenAt(-1, 0), WrittenAt(0, 0)}

\* Requests the threaded server handles at the same time.
WebRequests == {1, 2}

\* The page add_stock redirects to: the portfolio for an empty ticker, else
\* the research page when the form came from it.
AddStockRedirect(ticker, source_page) ==
    IF ticker # "" /\ source_page = "research" THEN "research"
    ELSE "portfolio"

InitWeb ==
    /\ fx = IdleFetch
    /\ vx = IdleCall
    /\ table \in WebTables
    /\ now = RunClock
    /\ st = IdleStore
    /\ run = IdleRun
    /\ mockrun = IdleMock
    /\ drv = IdleDriver
    /\ pf = [IdlePortfolio EXCEPT !.calls = [w \in WebRequests |-> IdleRequest]]

\* The state after a step r of request w: the request goes on, or it ends
\* with its message flashed and its redirect sent.
Served(w, r) ==
    /\ table' = r.table
    /\ pf' = IF r.call.pc # "done"
             THEN [pf EXCEPT !.rows = r.rows, !.calls[w] = r.call]
             ELSE [pf EXCEPT !.rows = r.rows,
                             !.calls[w] = IdleRequest,
                             !.last = <<[route |-> r.call.route,
                                         ticker |-> r.call.ticker,
                                         flash |-> r.flash,
                                         fetched |-> r.call.fetched,
                                         stored |-> r.call.stored,
                                         redirect |->
                                           IF r.call.route = "add_stock"
                                           THEN AddStockRedirect(r.call.ticker,
                                                                 r.call.source_page)
                                           ELSE "portfolio"]>>]

\* A POST to /add_stock: the request enters the handler, or a request in the
\* handler makes its next access to the database.
AddStock ==
    /\ \E w \in WebRequests :
         \/ /\ pf.calls[w].pc = "idle"
            /\ \E form \in FormTickers, source_page \in SourcePages :
                 Served(w, add_stock_step(AddStockRequest(form, source_page),
                                          pf.rows, table, <<>>, now, TRUE, TRUE))
         \/ /\ pf.calls[w].route = "add_stock"
            /\ pf.calls[w].pc \in {"check", "metrics", "query"}
            /\ Served(w, add_stock_step(pf.calls[w], pf.rows, table, <<>>, now,
                                        TRUE, TRUE))
         \/ /\ pf.calls[w].route = "add_stock"
            /\ pf.calls[w].pc = "fetch"
            /\ \E hist_script \in HistScripts, val_script \in ValScripts,
                  store_ok \in BOOLEAN :
                 LET ticker == pf.calls[w].ticker
                     ret == IF ticker \in Tickers
                            THEN GetMetricsRuns[ticker, hist_script, val_script].ret
                            ELSE <<>>
                 IN Served(w, add_stock_step(pf.calls[w], pf.rows, table, ret, now,
                                             store_ok, TRUE))
         \/ /\ pf.calls[w].route = "add_stock"
            /\ pf.calls[w].pc = "commit"
            /\ \E add_ok \in BOOLEAN :
                 Served(w, add_stock_step(pf.calls[w], pf.rows, table, <<>>, now,
                                          TRUE, add_ok))
    /\ UNCHANGED <<fx, vx, now, st, run, mockrun, drv>>

\* A GET of /delete_stock/<ticker>: the request enters the handler and makes
\* its query, or a request in the handler commits.
DeleteStock ==
    /\ \E w \in WebRequests :
         \/ /\ pf.calls[w].pc = "idle"
            /\ \E ticker \in UrlTickers :
                 Served(w, delete_stock_step(DeleteStockRequest(ticker), pf.rows,
                                             table, TRUE))
         \/ /\ pf.calls[w].route = "delete_stock"
            /\ \E delete_ok \in BOOLEAN :
                 Served(w, delete_stock_step(pf.calls[w], pf.rows, table, delete_ok))
    /\ UNCHANGED <<fx, vx, now, st, run, mockrun, drv>>

NextWeb == AddStock \/ DeleteStock

SpecWeb == InitWeb /\ [][NextWeb]_vars

\* C37: every ticker of the portfolio has a row in the metrics table; a
\* step adds a ticker only as the end of an add_stock request for it, with
\* the ticker's row present by then; and the step in which an add_stock ends
\* at its fetch (get_metrics gave no metrics or the store raised) leaves the
\* portfolio as it was.
C37_PortfolioHasMetrics ==
    /\ [](RowTickers(pf.rows) \subseteq DOMAIN table)
    /\ [][/\ \A t \in RowTickers(pf'.rows) \ RowTickers(pf.rows) :
                /\ pf'.last # <<>>
                /\ pf'.last[1].route = "add_stock"
                /\ pf'.last[1].ticker = t
                /\ t \in DOMAIN table'
          /\ \A w \in DOMAIN pf.calls :
                (pf.calls[w].pc = "fetch" /\ pf'.calls[w].pc = "idle")
                  => /\ pf'.rows = pf.rows
                     /\ pf'.last[1].fetched
                     /\ pf'.last[1].stored # "committed"]_vars

\* AAPL, which had a row, is in the portfolio; the request for MSFT, which
\* had none, fetched a record whose store raised and added nothing.
C37_Witness ==
    /\ pf.rows = <<"AAPL">>
    /\ DOMAIN table = {"AAPL"}
    /\ pf.last # <<>>
    /\ pf.last[1].route = "add_stock"
    /\ pf.last[1].ticker = "MSFT"
    /\ pf.last[1].fetched
    /\ pf.last[1].stored = "TypeError"

(***************************************************************************)
(* SpecLoader: load_unique_tickers (data/ticker_loader.py)                 *)
(*   A cell of a CSV column is a text (a sequence of characters), NaN or a *)
(*   number; a file is unreadable or maps its column names to cells.       *)
(***************************************************************************)

Text(chars) == [k |-> "text", chars |-> chars]

\* str.upper() of one character.
UpperChar(ch) ==
    CASE ch = "a" -> "A"
      [] ch = "b" -> "B"
      [] OTHER -> ch

\* str.upper()
StrUpper(chars) == [i \in DOMAIN chars |-> UpperChar(chars[i])]

\* str.strip(): the text without its leading and trailing blanks.
RECURSIVE StrStrip(_)
StrStrip(chars) ==
    IF chars = <<>> THEN chars
    ELSE IF Head(chars) = " " THEN StrStrip(Tail(chars))
    ELSE IF chars[Len(chars)] = " " THEN StrStrip(SubSeq(chars, 1, Len(chars) - 1))
    ELSE chars

\* str.replace(ch, '')
StrRemove(chars, ch) == SelectSeq(chars, LAMBDA c : c # ch)

\* str.isalnum(): not empty, letters and digits only.
IsAlnum(chars) ==
    /\ chars # <<>>
    /\ \A i \in DOMAIN chars : chars[i] \in {"a", "b", "A", "B", "1"}

\* Series.dropna().tolist()
DropNa(cells) == SelectSeq(cells, LAMBDA c : c.k # "nan")

\* Series.drop_duplicates(): the first occurrence of each value stays (NaN
\* counts as one value).
RECURSIVE DropDuplicates(_)
DropDuplicates(cells) ==
    IF cells = <<>> THEN cells
    ELSE LET front == DropDuplicates(SubSeq(cells, 1, Len(cells) - 1))
             last == cells[Len(cells)]
         IN IF \E i \in DOMAIN front : front[i] = last THEN front
            ELSE Append(front, last)

\* The column names tried, in this order.
TickerColumnNames == <<"Symbol", "Name", "Ticker", "symbol", "name", "ticker">>

\* The cells of the first of the names that is a column of the file, without
\* its NaN; the empty list when none is.
RECURSIVE TickerColumnFrom(_, _)
TickerColumnFrom(columns, i) ==
    IF i > Len(TickerColumnNames) THEN <<>>
    ELSE IF TickerColumnNames[i] \in DOMAIN columns
    THEN DropNa(columns[TickerColumnNames[i]])
    ELSE TickerColumnFrom(columns, i + 1)

\* .str.upper().str.strip() of one element: a value that is no text becomes
\* NaN.
CleanOne(cell) ==
    IF cell.k = "text" THEN Text(StrStrip(StrUpper(cell.chars))) ELSE NaN

\* tickers[tickers.notnull()]: the elements that are neither NaN nor None.
NotNull(cells) == SelectSeq(cells, LAMBDA c : c.k \notin {"nan", "none"})

\* A cleaning that drops the duplicates before it changes case and strips.
Clean_DuplicatesFirst(cells) ==
    LET unique == DropDuplicates(NotNull(cells))
    IN [i \in DOMAIN unique |-> CleanOne(unique[i])]

\* tickers[tickers.notnull()].str.upper().str.strip().drop_duplicates()
Clean(cells) ==
    LET present == NotNull(cells)
    IN DropDuplicates([i \in DOMAIN present |-> CleanOne(present[i])])

\* The test of the list comprehension: a str that is alphanumeric without
\* its '.' and '-'.
ValidTicker(cell) ==
    /\ cell.k = "text"
    /\ IsAlnum(StrRemove(StrRemove(cell.chars, "."), "-"))

\* load_unique_tickers on two files: the list returned, or the exception.
\* _load_csv gives up on an unreadable file after its attempts; the .str
\* accessor refuses a Series without any text.
load_unique_tickers(sp500, nasdaq) ==
    IF ~sp500.readable \/ ~nasdaq.readable
    THEN [raised |-> "RetryError", value |-> <<>>]
    ELSE LET all_tickers == TickerColumnFrom(sp500.columns, 1)
                              \o TickerColumnFrom(nasdaq.columns, 1)
         IN IF all_tickers = <<>> THEN [raised |-> "ValueError", value |-> <<>>]
            ELSE IF \A i \in DOMAIN all_tickers : all_tickers[i].k # "text"
            THEN [raised |-> "AttributeError", value |-> <<>>]
            ELSE [raised |-> "", value |-> SelectSeq(Clean(all_tickers), ValidTicker)]

\* Longest column of the first file.
MaxSymbols == 2

\* "ab", "AB", " ab ", "A.B", "a-1", "A B", "A$", "." and ""
RawTexts ==
    {Text(<<"a", "b">>), Text(<<"A", "B">>), Text(<<" ", "a", "b", " ">>),
     Text(<<"A", ".", "B">>), Text(<<"a", "-", "1">>), Text(<<"A", " ", "B">>),
     Text(<<"A", "$">>), Text(<<".">>), Text(<<>>)}

RawCells == RawTexts \cup {NaN, Num(5, 0)}

CellLists(n) == UNION {[1..m -> RawCells] : m \in 0..n}

Unreadable == [readable |-> FALSE, columns |-> <<>>]

\* The first file: unreadable, or its cells under Symbol, under Name beside a
\* Ticker column, or under a name that is not tried.
Sp500Files ==
    {Unreadable}
      \cup {[readable |-> TRUE, columns |-> [h \in {"Symbol"} |-> cells]] :
               cells \in CellLists(MaxSymbols)}
      \cup {[readable |-> TRUE,
             columns |-> [h \in {"Name", "Ticker"} |->
                            IF h = "Name" THEN cells ELSE <<Text(<<"a", "b">>)>>]] :
               cells \in CellLists(MaxSymbols)}
      \cup {[readable |-> TRUE, columns |-> [h \in {"Security"} |-> cells]] :
               cells \in CellLists(MaxSymbols)}

\* The second file, of at most one cell.
NasdaqFiles ==
    {Unreadable}
      \cup {[readable |-> TRUE, columns |-> [h \in {header} |-> cells]] :
               header \in {"ticker", "Security"}, cells \in CellLists(1)}

InitLoader ==
    /\ fx = IdleFetch
    /\ vx = IdleCall
    /\ table = EmptyTable
    /\ now = 0
    /\ st = IdleStore
    /\ run = IdleRun
    /\ mockrun = IdleMock
    /\ drv = IdleDriver
    /\ pf = IdlePortfolio

\* ticker_loader.load_unique_tickers() on the two files.
LoadUniqueTickers ==
    /\ vx.op = "idle"
    /\ \E sp500 \in Sp500Files, nasdaq \in NasdaqFiles :
         LET r == load_unique_tickers(sp500, nasdaq)
         IN vx' = [op |-> "load_unique_tickers", input |-> <<sp500, nasdaq>>,
                   output |-> <<r.value>>, raised |-> r.raised]
    /\ UNCHANGED <<fx, table, now, st, run, mockrun, drv, pf>>

NextLoader == LoadUniqueTickers

SpecLoader == InitLoader /\ [][NextLoader]_vars

\* The texts of the ticker columns of the two files of a call.
InputSymbols ==
    LET cells == TickerColumnFrom(vx.input[1].columns, 1)
                   \o TickerColumnFrom(vx.input[2].columns, 1)
    IN {cells[i] : i \in {j \in DOMAIN cells : cells[j].k = "text"}}

\* C39: the list load_unique_tickers returns has no duplicates, and each of
\* its elements is a text in upper case that is alphanumeric without its '.'
\* and '-'; an input symbol whose upper-case, stripped form passes that test
\* is in it exactly once, however many spellings of it the files hold; and
\* the call raises when neither file has a ticker column.
C39_UniqueUpperValid ==
    vx.op = "load_unique_tickers" =>
      LET out == vx.output[1] IN
      /\ vx.raised = "" =>
           /\ \A i, j \in DOMAIN out : out[i] = out[j] => i = j
           /\ \A i \in DOMAIN out :
                /\ out[i].k = "text"
                /\ StrUpper(out[i].chars) = out[i].chars
                /\ IsAlnum(StrRemove(StrRemove(out[i].chars, "."), "-"))
           /\ \A c \in InputSymbols :
                ValidTicker(CleanOne(c)) =>
                  Cardinality({i \in DOMAIN out : out[i] = CleanOne(c)}) = 1
      /\ (/\ vx.input[1].readable /\ vx.input[2].readable
          /\ \A f \in 1..2, i \in DOMAIN TickerColumnNames :
               TickerColumnNames[i] \notin DOMAIN vx.input[f].columns)
           => vx.raised # ""

\* "ab" and " ab " in the first file and "AB" in the second give the one
\* element "AB".
C39_Witness ==
    /\ vx.op = "load_unique_tickers"
    /\ vx.raised = ""
    /\ "Symbol" \in DOMAIN vx.input[1].columns
    /\ "ticker" \in DOMAIN vx.input[2].columns
    /\ vx.input[1].columns["Symbol"] = <<Text(<<"a", "b">>), Text(<<" ", "a", "b", " ">>)>>
    /\ vx.input[2].columns["ticker"] = <<Text(<<"A", "B">>)>>
    /\ vx.output[1] = <<Text(<<"A", "B">>)>>

====
